---- MODULE Spec2Model ----
(***************************************************************************)
(* Model of the Expectation/Mock engine of funkpy (src/mock.py).           *)
(*                                                                         *)
(* One object under test (the root: a Mock, or a standalone Expectation)   *)
(* is modelled together with the nested Expectations that on() creates     *)
(* for its rules and the member mocks that expects() creates.  Values are  *)
(* records with a type tag, so that equality between values of different   *)
(* types, the matcher objects' overloaded __eq__ and the errors it raises  *)
(* are all computed as the interpreter computes them.                      *)
(*                                                                         *)
(* The decorators of src/once.py and src/middleman.py, the test suite of   *)
(* src/testing.py and the strict mock of src/poc_db_mock.py are modelled   *)
(* beside it, each with its own state.                                     *)
(***************************************************************************)
EXTENDS Integers, Sequences, FiniteSets, TLC

VARIABLES arg_map, calls, checks, call_expectations, _returns, last, log, lastset,
          cls, attrs, member_mocks, heap,
          _called, _cached_out, pre_hook, post_hook, test_cases, ran, outs,
          strict

(* the root's class and attributes other than its Expectation fields, and
   the member mocks *)
members == <<cls, attrs, member_mocks, heap>>

(* the state of the decorators of src/once.py and src/middleman.py and of
   the test suite of src/testing.py: the attributes the decorators set on the
   function they wrap, the hooks they were given, the suite's cases, the
   bodies that ran and the outcomes of the calls made; and the Mock of
   src/poc_db_mock.py *)
utils == <<_called, _cached_out, pre_hook, post_hook, test_cases, ran, outs, strict>>

(* the state of the mock engine of src/mock.py *)
engine == <<arg_map, calls, checks, call_expectations, _returns, last, log, lastset,
            members>>

vars == <<engine, utils>>

(***************************************************************************)
(* Bounds of the model.                                                    *)
(***************************************************************************)
MaxCalls == 2
MaxRules == 3
MaxChecks == 1
MaxAtLeast == 2
MaxMembers == 2
MaxWrapperCalls == 5
MaxCases == 3
MaxRuns == 2

(***************************************************************************)
(* Python values.  tag is the runtime type; n holds an int's value (or an  *)
(* object's identity), s a str's characters (or a Like's pattern), ty the  *)
(* type an OfType expects.                                                 *)
(***************************************************************************)
IntV(n) == [tag |-> "int", n |-> n, s |-> <<>>, ty |-> ""]
StrV(s) == [tag |-> "str", n |-> 0, s |-> s, ty |-> ""]
NoneV == [tag |-> "NoneType", n |-> 0, s |-> <<>>, ty |-> ""]
TrueV == [tag |-> "bool", n |-> 1, s |-> <<>>, ty |-> ""]
SelfV == [tag |-> "Expectation", n |-> 0, s |-> <<>>, ty |-> ""]
NestedV(i) == [tag |-> "Expectation", n |-> i, s |-> <<>>, ty |-> ""]
ExcV(class, id) == [tag |-> class, n |-> id, s |-> <<>>, ty |-> ""]

(* a function with the given parameter names, the Mock that the id-th
   expects() created, and the value of an attribute the object has not *)
FnV(co_varnames) == [tag |-> "function", n |-> 0, s |-> co_varnames, ty |-> ""]
MockV(id) == [tag |-> "Mock", n |-> id, s |-> <<>>, ty |-> ""]
Absent == [tag |-> "absent", n |-> 0, s |-> <<>>, ty |-> ""]

OfType(expected) == [tag |-> "OfType", n |-> 0, s |-> <<>>, ty |-> expected]
Like(expected) == [tag |-> "Like", n |-> 0, s |-> expected, ty |-> ""]

(* the outcome of a Python call: a returned value or a raised exception *)
Return(v) == [kind |-> "return", val |-> v]
Raise(ex) == [kind |-> "raise", val |-> ex]

(* the closure stored in Expectation._returns *)
ReturnsNone == [kind |-> "value", val |-> NoneV]
ReturnsValue(rv) == [kind |-> "value", val |-> rv]
RaisesEx(ex) == [kind |-> "raise", val |-> ex]

(* mutant of CallReturns: the configured failure is raised wrapped in a new
   exception *)
CallReturnsWrapped(r) ==
    IF r.kind = "raise"
    THEN [kind |-> "raise",
          val |-> [tag |-> "RuntimeError", n |-> 0, s |-> <<>>, ty |-> ""]]
    ELSE [kind |-> "return", val |-> r.val]

(* calling the closure: lambda: rv, or lambda: _raise(ex) *)
CallReturns(r) == IF r.kind = "raise" THEN Raise(r.val) ELSE Return(r.val)

(***************************************************************************)
(* Arguments.  A raw call is its positional values and its keyword items   *)
(* in the caller's order.  A normalized call is a tuple or a dict; a dict  *)
(* is kept as its items in insertion order, because _args_match walks the  *)
(* items in that order and stops at the first value that differs.          *)
(***************************************************************************)
KV(k, v) == [k |-> k, v |-> v]
Raw(args, kwargs) == [args |-> args, kwargs |-> kwargs]
NoArgs == Raw(<<>>, <<>>)

TupleOf(args) == [form |-> "tuple", items |-> [i \in DOMAIN args |-> KV("", args[i])]]
DictOf(items) == [form |-> "dict", items |-> items]

Keys(items) == {items[i].k : i \in DOMAIN items}
Get(items, k) == items[CHOOSE i \in DOMAIN items : items[i].k = k].v

(* dict[k] = v: an existing key keeps its position, a new key goes last *)
DictSet(items, k, v) ==
    IF k \in Keys(items)
    THEN [i \in DOMAIN items |-> IF items[i].k = k THEN KV(k, v) ELSE items[i]]
    ELSE Append(items, KV(k, v))

(* dict equality of Python: same keys, same values, whatever the order *)
SameDict(d1, d2) ==
    /\ Keys(d1) = Keys(d2)
    /\ \A k \in Keys(d1) : Get(d1, k) = Get(d2, k)

(* arg_map: None, or list(fn.__code__.co_varnames) *)
NoneMap == [known |-> FALSE, names |-> <<>>]
NamesMap(names) == [known |-> TRUE, names |-> names]

(* mutant of MergePositional: a name passed by keyword keeps the keyword's
   value when a positional value arrives for it too *)
RECURSIVE MergeKeepKeyword(_, _, _, _)
MergeKeepKeyword(all_args_kw, names, args, index) ==
    IF index > Len(args) THEN [err |-> "", val |-> DictOf(all_args_kw)]
    ELSE IF index > Len(names) THEN [err |-> "IndexError", val |-> DictOf(<<>>)]
    ELSE MergeKeepKeyword(IF names[index] \in Keys(all_args_kw)
                          THEN all_args_kw
                          ELSE DictSet(all_args_kw, names[index], args[index]),
                          names, args, index + 1)

RECURSIVE MergePositional(_, _, _, _)
MergePositional(all_args_kw, names, args, index) ==
    IF index > Len(args) THEN [err |-> "", val |-> DictOf(all_args_kw)]
    ELSE IF index > Len(names) THEN [err |-> "IndexError", val |-> DictOf(<<>>)]
    ELSE MergePositional(DictSet(all_args_kw, names[index], args[index]),
                         names, args, index + 1)

(* mutant of _normalize_args: without a signature the keyword arguments are
   dropped and the positional ones are kept *)
_normalize_args_lenient(am, args, kwargs) ==
    IF ~am.known THEN [err |-> "", val |-> TupleOf(args)]
    ELSE MergePositional(kwargs, am.names, args, 1)

_normalize_args(am, args, kwargs) ==
    IF ~am.known /\ kwargs # <<>> THEN [err |-> "AssertionError", val |-> TupleOf(<<>>)]
    ELSE IF ~am.known THEN [err |-> "", val |-> TupleOf(args)]
    ELSE MergePositional(kwargs, am.names, args, 1)

(***************************************************************************)
(* Equality, v == av, as Python evaluates it: v.__eq__(av) first, and the  *)
(* reflected av.__eq__(v) when v is a plain value that does not know av's  *)
(* type.  OfType.__eq__ compares the runtime type; Like.__eq__ hands the   *)
(* other value to re.match, which raises TypeError for anything but text.  *)
(* Patterns are literal texts, for which re.match is a prefix test.        *)
(***************************************************************************)
Bool(b) == IF b THEN "True" ELSE "False"

IsPrefix(p, s) == Len(p) <= Len(s) /\ \A i \in 1..Len(p) : p[i] = s[i]

OfType__eq__(self, other) == Bool(other.tag = self.ty)

Like__eq__(self, other) ==
    IF other.tag = "str" THEN Bool(IsPrefix(self.s, other.s)) ELSE "TypeError"

PyEq(v, av) ==
    IF v.tag = "OfType" THEN OfType__eq__(v, av)
    ELSE IF v.tag = "Like" THEN Like__eq__(v, av)
    ELSE IF av.tag = "OfType" THEN OfType__eq__(av, v)
    ELSE IF av.tag = "Like" THEN Like__eq__(av, v)
    ELSE Bool(v = av)

(* the loop over the items of expected: continue while equal, False at the
   first difference, and an error of == leaves the loop as that error *)
RECURSIVE MatchDict(_, _, _)
MatchDict(expected, actual, i) ==
    IF i > Len(expected) THEN "True"
    ELSE LET eq == PyEq(expected[i].v, Get(actual, expected[i].k))
         IN IF eq = "True" THEN MatchDict(expected, actual, i + 1) ELSE eq

RECURSIVE MatchTuple(_, _, _)
MatchTuple(expected, actual, i) ==
    IF i > Len(expected) THEN "True"
    ELSE LET eq == PyEq(expected[i].v, actual[i].v)
         IN IF eq = "True" THEN MatchTuple(expected, actual, i + 1) ELSE eq

(* mutant of _args_match: keys that only one side has are ignored, as if
   an omitted parameter matched anything *)
_args_match_common(expected, actual) ==
    IF expected.form # actual.form THEN "False"
    ELSE IF expected.form = "dict"
    THEN MatchDict(SelectSeq(expected.items, LAMBDA it : it.k \in Keys(actual.items)),
                   actual.items, 1)
    ELSE IF Len(expected.items) # Len(actual.items) THEN "False"
         ELSE MatchTuple(expected.items, actual.items, 1)

(* mutant of _args_match: the keys are compared as listed, not sorted *)
_args_match_unsorted(expected, actual) ==
    IF expected.form # actual.form THEN "False"
    ELSE IF expected.form = "dict"
    THEN IF [i \in DOMAIN expected.items |-> expected.items[i].k]
              # [i \in DOMAIN actual.items |-> actual.items[i].k]
         THEN "False"
         ELSE MatchDict(expected.items, actual.items, 1)
    ELSE IF Len(expected.items) # Len(actual.items) THEN "False"
         ELSE MatchTuple(expected.items, actual.items, 1)

_args_match(expected, actual) ==
    IF expected.form # actual.form THEN "False"
    ELSE IF expected.form = "dict"
    THEN IF Keys(expected.items) # Keys(actual.items) THEN "False"
         ELSE MatchDict(expected.items, actual.items, 1)
    ELSE IF Len(expected.items) # Len(actual.items) THEN "False"
         ELSE MatchTuple(expected.items, actual.items, 1)

(***************************************************************************)
(* Expectation checks.                                                     *)
(***************************************************************************)
CalledExactly(n_times) ==
    [kind |-> "CalledExactly", n_times |-> n_times, args |-> TupleOf(<<>>)]
CalledAtLeast(n_times) ==
    [kind |-> "CalledAtLeast", n_times |-> n_times, args |-> TupleOf(<<>>)]
CalledWith(args) ==
    [kind |-> "CalledWith", n_times |-> 0, args |-> args]

AssertionError == ExcV("AssertionError", 0)
TypeError == ExcV("TypeError", 0)
AttributeError == ExcV("AttributeError", 0)

(* each check applied to an expectation's calls: "ok", or the error raised *)
(* mutant of CalledExactlyCall: only more calls than expected are an error *)
CalledExactlyNoMore(check, cs) ==
    IF Len(cs) > check.n_times THEN "AssertionError" ELSE "ok"

CalledExactlyCall(check, cs) ==
    IF Len(cs) # check.n_times THEN "AssertionError" ELSE "ok"

(* mutant of CalledAtLeastCall: the comparison is off by one *)
CalledAtLeastStrict(check, cs) ==
    IF Len(cs) <= check.n_times THEN "AssertionError" ELSE "ok"

CalledAtLeastCall(check, cs) ==
    IF Len(cs) < check.n_times THEN "AssertionError" ELSE "ok"

RECURSIVE CalledWithCall(_, _, _)
CalledWithCall(check, cs, i) ==
    IF i > Len(cs) THEN "AssertionError"
    ELSE LET m == _args_match(check.args, cs[i])
         IN IF m = "True" THEN "ok"
            ELSE IF m = "TypeError" THEN "TypeError"
            ELSE CalledWithCall(check, cs, i + 1)

CheckCall(check, cs) ==
    IF check.kind = "CalledExactly" THEN CalledExactlyCall(check, cs)
    ELSE IF check.kind = "CalledAtLeast" THEN CalledAtLeastCall(check, cs)
    ELSE CalledWithCall(check, cs, 1)

(* Expectation.verify: the checks in order, the first error is raised *)
RECURSIVE verify(_, _, _)
verify(chks, cs, i) ==
    IF i > Len(chks) THEN Return(TrueV)
    ELSE LET r == CheckCall(chks[i], cs)
         IN IF r = "ok" THEN verify(chks, cs, i + 1) ELSE Raise(ExcV(r, 0))

(***************************************************************************)
(* An Expectation object: the root's fields are the variables, a rule's    *)
(* nested Expectation is this record.                                      *)
(***************************************************************************)
NewExpectation ==
    [returns |-> ReturnsNone, calls |-> <<>>, checks |-> <<>>,
     call_expectations |-> <<>>]

Self ==
    [returns |-> _returns, calls |-> calls, checks |-> checks,
     call_expectations |-> call_expectations]

(* Expectation.__init__(fn, method_name) up to the assignment of arg_map:
   list(fn.__code__.co_varnames) unless fn is None; anything but a function
   has no __code__ *)
Expectation__init__(fn) ==
    IF fn.tag = "NoneType" THEN [err |-> "", arg_map |-> NoneMap]
    ELSE IF fn.tag = "function" THEN [err |-> "", arg_map |-> NamesMap(fn.s)]
    ELSE [err |-> "AttributeError", arg_map |-> NoneMap]

(* Mock(method_name=method_name, fn=fn), as expects() constructs it *)
NewMock(method_name, fn) ==
    [method_name |-> method_name, arg_map |-> Expectation__init__(fn).arg_map,
     e |-> NewExpectation]

(* the loop over call_expectations: the index of the first rule the call
   matches, 0 when there is none, -1 when a comparison raised TypeError *)
RECURSIVE FirstRule(_, _, _)
FirstRule(merged_args, rules, i) ==
    IF i > Len(rules) THEN 0
    ELSE LET m == _args_match(merged_args, rules[i].matcher)
         IN IF m = "True" THEN i
            ELSE IF m = "TypeError" THEN -1
            ELSE FirstRule(merged_args, rules, i + 1)

(* mutant of __call__: the call is recorded after the response was produced,
   so a response that raises leaves no record *)
RECURSIVE __call__late(_, _, _, _)
__call__late(am, e, args, kwargs) ==
    LET n == _normalize_args(am, args, kwargs)
    IN IF n.err # "" THEN [out |-> Raise(ExcV(n.err, 0)), e |-> e, rule |-> -1]
       ELSE LET merged_args == n.val
                w == FirstRule(merged_args, e.call_expectations, 1)
            IN IF w = -1 THEN [out |-> Raise(TypeError), e |-> e, rule |-> -1]
               ELSE IF w = 0
               THEN [out |-> CallReturns(e.returns),
                     e |-> IF e.returns.kind = "raise" THEN e
                           ELSE [e EXCEPT !.calls = Append(@, merged_args)],
                     rule |-> 0]
               ELSE LET r == __call__late(am, e.call_expectations[w].exp, args, kwargs)
                        after == [e EXCEPT !.call_expectations[w].exp = r.e]
                    IN [out |-> r.out,
                        e |-> IF r.out.kind = "raise" THEN after
                              ELSE [after EXCEPT !.calls = Append(@, merged_args)],
                        rule |-> w]

(* mutant of __call__: the winning rule's response is produced without the
   invocation being passed on to its nested Expectation, which records
   nothing *)
RECURSIVE __call__unforwarded(_, _, _, _)
__call__unforwarded(am, e, args, kwargs) ==
    LET n == _normalize_args(am, args, kwargs)
    IN IF n.err # "" THEN [out |-> Raise(ExcV(n.err, 0)), e |-> e, rule |-> -1]
       ELSE LET merged_args == n.val
                recorded == [e EXCEPT !.calls = Append(@, merged_args)]
                w == FirstRule(merged_args, e.call_expectations, 1)
            IN IF w = -1 THEN [out |-> Raise(TypeError), e |-> recorded, rule |-> -1]
               ELSE IF w = 0
               THEN [out |-> CallReturns(e.returns), e |-> recorded, rule |-> 0]
               ELSE [out |-> __call__unforwarded(am, e.call_expectations[w].exp,
                                                 args, kwargs).out,
                     e |-> recorded,
                     rule |-> w]

(* Expectation.__call__: the outcome, the expectation afterwards and the
   rule that answered (0: the default response, -1: no response) *)
RECURSIVE __call__(_, _, _, _)
__call__(am, e, args, kwargs) ==
    LET n == _normalize_args(am, args, kwargs)
    IN IF n.err # "" THEN [out |-> Raise(ExcV(n.err, 0)), e |-> e, rule |-> -1]
       ELSE LET merged_args == n.val
                recorded == [e EXCEPT !.calls = Append(@, merged_args)]
                w == FirstRule(merged_args, e.call_expectations, 1)
            IN IF w = -1 THEN [out |-> Raise(TypeError), e |-> recorded, rule |-> -1]
               ELSE IF w = 0
               THEN [out |-> CallReturns(e.returns), e |-> recorded, rule |-> 0]
               ELSE LET r == __call__(am, e.call_expectations[w].exp, args, kwargs)
                    IN [out |-> r.out,
                        e |-> [recorded EXCEPT !.call_expectations[w].exp = r.e],
                        rule |-> w]

(***************************************************************************)
(* The state: the root Mock's fields, and what the test observed.          *)
(*   last    the operation performed last, its raw arguments, its outcome  *)
(*           and, for an invocation, the rule that answered                *)
(*   log     the raw arguments of the invocations made since construction  *)
(*           (or restore) that passed normalization, in call order         *)
(*   lastset the most recent returns()/raises() on the root, as called     *)
(*   cls     the root's class, "Mock" or "Expectation"                     *)
(*   attrs   the root's attributes fn and method_name, and the attributes  *)
(*           that expects() sets: a member's name holds the Mock created   *)
(*           for it (expects("fn") replaces the attribute fn)              *)
(*   member_mocks the Mock's list of member names                          *)
(*   heap    the Mocks that expects() created, in creation order; the      *)
(*           test keeps them as the values expects() returned              *)
(* In last, target is 0 for an operation on the root and the index in heap *)
(* of the member the operation was performed on, name the name given to    *)
(* expects() or used to look the member up.                                *)
(***************************************************************************)
Op(op, inp, out, rule) ==
    [op |-> op, inp |-> inp, out |-> out, rule |-> rule, target |-> 0, name |-> ""]
MemberOp(id, name, op, inp, out, rule) ==
    [op |-> op, inp |-> inp, out |-> out, rule |-> rule, target |-> id, name |-> name]
NotSet == [op |-> "none", val |-> NoneV]

(* the names expects() is given, and the attributes of the root that are
   kept in attrs: fn, method_name and the members *)
MemberNames == {"f", "fn"}
AttrNames == MemberNames \cup {"fn", "method_name"}

(***************************************************************************)
(* The decorators of src/once.py.  The wrapped function is the caller's:   *)
(* body is what it does if it runs with the call's arguments, returning a  *)
(* value or raising.  A wrapper takes positional arguments only.           *)
(*   _called      the attribute Once sets on the function, for each        *)
(*                function it decorates                                    *)
(*   _cached_out  the attribute Cached sets on the function                *)
(*   ran          the bodies that ran, in order, with their arguments      *)
(*   outs         the calls made through a wrapper, in order: arguments,   *)
(*                what the function does if run, and the call's outcome    *)
(***************************************************************************)
RuntimeError == ExcV("RuntimeError", 0)
Ran(fn, args) == [fn |-> fn, args |-> args]
WrapperCall(op, args, body, out) ==
    [op |-> op, self |-> NoneV, args |-> args, body |-> body, out |-> out]

(* mutant of Once_wrapper: the flag is set once the function has returned *)
Once_wrapper_late(called, args, body) ==
    IF called
    THEN [_called |-> called, ran |-> <<>>, out |-> Raise(RuntimeError)]
    ELSE [_called |-> body.kind = "return", ran |-> <<Ran("fn", args)>>, out |-> body]

(* Once.wrapper: raise if the flag is set, else set it and run the function *)
Once_wrapper(called, args, body) ==
    IF called
    THEN [_called |-> called, ran |-> <<>>, out |-> Raise(RuntimeError)]
    ELSE [_called |-> TRUE, ran |-> <<Ran("fn", args)>>, out |-> body]

(* Cached.wrapper: return the stored value unless it is None, else run the
   function, store what it returns and return it; a raise stores nothing *)
Cached_wrapper(cached, args, body) ==
    IF cached # NoneV
    THEN [_cached_out |-> cached, ran |-> <<>>, out |-> Return(cached)]
    ELSE IF body.kind = "raise"
    THEN [_cached_out |-> cached, ran |-> <<Ran("fn", args)>>, out |-> body]
    ELSE [_cached_out |-> body.val, ran |-> <<Ran("fn", args)>>, out |-> Return(body.val)]

(* Once(fn) and Cached(fn) have decorated the function; no call was made *)
OnceFunctions == { "fn", "_fork", "_set_pollers" }

Decorated ==
    /\ _called = [f \in OnceFunctions |-> FALSE]
    /\ _cached_out = NoneV
    /\ ran = <<>>
    /\ outs = <<>>

(* a call of the function that Once wraps *)
OnceCall(args, body) ==
    /\ Len(outs) < MaxWrapperCalls
    /\ LET r == Once_wrapper(_called["fn"], args, body)
       IN /\ _called' = [_called EXCEPT !["fn"] = r._called]
          /\ ran' = ran \o r.ran
          /\ outs' = Append(outs, WrapperCall("Once", args, body, r.out))
    /\ UNCHANGED <<engine, strict, _cached_out, pre_hook, post_hook, test_cases>>

(***************************************************************************)
(* Cli (src/cli.py): __init__ calls self._fork(argv) and then               *)
(* self._set_pollers(), both decorated with Once at class definition, so   *)
(* the wrappers get the instance as their first argument.  _fork returns   *)
(* or raises (fork is what its body does); _set_pollers returns once       *)
(* _fork has set fd.                                                       *)
(***************************************************************************)
ObjectV(id) == [tag |-> "object", n |-> id, s |-> <<>>, ty |-> ""]
ForkError == ExcV("RuntimeError", 1)
CliCall(self, argv, body, out) ==
    [op |-> "Cli", self |-> self, args |-> argv, body |-> body, out |-> out]

(* Cli.__init__ with the wrappers' flags: the flags afterwards, the bodies
   that ran and the outcome of the construction *)
Cli__init__(called, self, argv, fork) ==
    LET f == Once_wrapper(called["_fork"], <<self>> \o argv, fork)
        p == Once_wrapper(called["_set_pollers"], <<self>>, Return(NoneV))
    IN IF f.out.kind = "raise"
       THEN [_called |-> [called EXCEPT !["_fork"] = f._called],
             ran |-> [i \in DOMAIN f.ran |-> Ran("_fork", f.ran[i].args)],
             out |-> f.out]
       ELSE [_called |-> [called EXCEPT !["_fork"] = f._called,
                                        !["_set_pollers"] = p._called],
             ran |-> [i \in DOMAIN f.ran |-> Ran("_fork", f.ran[i].args)]
                     \o [i \in DOMAIN p.ran |-> Ran("_set_pollers", p.ran[i].args)],
             out |-> IF p.out.kind = "raise" THEN p.out ELSE Return(self)]

(* mutant of CliConstruct: every instance has guards of its own, so the
   flags of an instance that was not constructed before are not set *)
CliConstructOwnFlags(id, argv, fork) ==
    /\ Len(outs) < MaxWrapperCalls
    /\ LET own == \E i \in DOMAIN outs : outs[i].op = "Cli" /\ outs[i].self = ObjectV(id)
           r == Cli__init__([f \in OnceFunctions |-> own /\ _called[f]],
                            ObjectV(id), argv, fork)
       IN /\ _called' = [f \in OnceFunctions |-> _called[f] \/ r._called[f]]
          /\ ran' = ran \o r.ran
          /\ outs' = Append(outs, CliCall(ObjectV(id), argv, fork, r.out))
    /\ UNCHANGED <<engine, strict, _cached_out, pre_hook, post_hook, test_cases>>

(* Cli(argv), the id-th Cli object of the program *)
CliConstruct(id, argv, fork) ==
    /\ Len(outs) < MaxWrapperCalls
    /\ LET r == Cli__init__(_called, ObjectV(id), argv, fork)
       IN /\ _called' = r._called
          /\ ran' = ran \o r.ran
          /\ outs' = Append(outs, CliCall(ObjectV(id), argv, fork, r.out))
    /\ UNCHANGED <<engine, strict, _cached_out, pre_hook, post_hook, test_cases>>

(* a call of the function that Cached wraps *)
CachedCall(args, body) ==
    /\ Len(outs) < MaxWrapperCalls
    /\ LET r == Cached_wrapper(_cached_out, args, body)
       IN /\ _cached_out' = r._cached_out
          /\ ran' = ran \o r.ran
          /\ outs' = Append(outs, WrapperCall("Cached", args, body, r.out))
    /\ UNCHANGED <<engine, strict, _called, pre_hook, post_hook, test_cases>>

(***************************************************************************)
(* The decorators of src/middleman.py.  A hook is a function or None; the  *)
(* wrapped function and the hooks are the caller's and return.  A call's   *)
(* arguments are its positional and keyword arguments; a method's wrapper  *)
(* is called with the instance first.                                      *)
(*   pre_hook, post_hook  the hooks given to Middleman / Middleman_mf      *)
(***************************************************************************)
HookV == FnV(<<"args", "kwargs">>)
MethodCall(op, self, args, body, out) ==
    [op |-> op, self |-> self, args |-> args, body |-> body, out |-> out]

(* bool(v) of the values a hook can be *)
Truthy(v) ==
    ~ \/ v.tag = "NoneType"
      \/ v.tag = "int" /\ v.n = 0
      \/ v.tag = "str" /\ v.s = <<>>

(* mutant of Middleman_wrapper: post_hook runs before the function, and is
   given the arguments only *)
Middleman_wrapper_early(pre, post, first, inp, rv) ==
    LET all == Raw(first \o inp.args, inp.kwargs)
    IN [ran |-> (IF Truthy(pre) THEN <<Ran("pre_hook", all)>> ELSE <<>>)
                \o (IF Truthy(post) THEN <<Ran("post_hook", all)>> ELSE <<>>)
                \o <<Ran("fn", all)>>,
        out |-> Return(rv)]

(* Middleman.__call__.wrapper, and Middleman_mf.__call__.wrapper where first
   holds the instance: pre_hook if there is one, the function, post_hook if
   there is one with the return value put before the arguments (and after
   the instance) *)
Middleman_wrapper(pre, post, first, inp, rv) ==
    LET all == Raw(first \o inp.args, inp.kwargs)
    IN [ran |-> (IF Truthy(pre) THEN <<Ran("pre_hook", all)>> ELSE <<>>)
                \o <<Ran("fn", all)>>
                \o (IF Truthy(post)
                    THEN <<Ran("post_hook", Raw(first \o <<rv>> \o inp.args, inp.kwargs))>>
                    ELSE <<>>),
        out |-> Return(rv)]

(* Middleman(pre_hook=.., post_hook=..) and Middleman_mf(..) were given the
   hooks *)
Middleman__init__(pre, post) ==
    /\ pre_hook = pre
    /\ post_hook = post

(* a call of the function that Middleman wraps *)
MiddlemanCall(inp, rv) ==
    /\ Len(outs) < MaxWrapperCalls
    /\ LET r == Middleman_wrapper(pre_hook, post_hook, <<>>, inp, rv)
       IN /\ ran' = ran \o r.ran
          /\ outs' = Append(outs, WrapperCall("Middleman", inp, Return(rv), r.out))
    /\ UNCHANGED <<engine, strict, _called, _cached_out, pre_hook, post_hook, test_cases>>

(* a call of the method that Middleman_mf wraps, on the instance self *)
Middleman_mfCall(self, inp, rv) ==
    /\ Len(outs) < MaxWrapperCalls
    /\ LET r == Middleman_wrapper(pre_hook, post_hook, <<self>>, inp, rv)
       IN /\ ran' = ran \o r.ran
          /\ outs' = Append(outs, MethodCall("Middleman_mf", self, inp, Return(rv), r.out))
    /\ UNCHANGED <<engine, strict, _called, _cached_out, pre_hook, post_hook, test_cases>>

(***************************************************************************)
(* Middleman_cl.  The wrapped class cl is given by the names of its public *)
(* methods in the order of dir(); each method returns its own value.  The  *)
(* instance C() makes one wrapper per method, lambda *args, **kwargs:      *)
(* self._call_wrapped(mf, args, **kwargs), where mf is the variable of the *)
(* loop in C.__init__: the wrappers read it when they are called.          *)
(***************************************************************************)
TupleV(items) == [tag |-> "tuple", n |-> Len(items), s |-> <<>>, ty |-> "", items |-> items]
ClassCall(member, self, args, body, out) ==
    [op |-> "Middleman_cl", member |-> member, self |-> self, args |-> args,
     body |-> body, out |-> out]

(* the value of mf after the loop  for mf in dir(self._obj)  of C.__init__:
   the last name; the public names come after the names that start with __ *)
LoopVariable(cl) == cl[Len(cl)]

(* C._call_wrapped(mf, *args, **kwargs): pre_hook if there is one, the
   method mf of the wrapped object, post_hook if there is one *)
_call_wrapped(pre, post, obj, mf, args, kwargs, rv) ==
    [ran |-> (IF Truthy(pre)
              THEN <<Ran("pre_hook", Raw(<<obj, StrV(<<mf>>)>> \o args, kwargs))>>
              ELSE <<>>)
             \o <<Ran(mf, Raw(<<obj>> \o args, kwargs))>>
             \o (IF Truthy(post)
                 THEN <<Ran("post_hook", Raw(<<obj, StrV(<<mf>>), rv>> \o args, kwargs))>>
                 ELSE <<>>),
     out |-> Return(rv)]

(* the wrapper that C.__init__ set as attribute member: it passes the name
   that mf holds now, and the positional arguments as one tuple *)
Middleman_cl_wrapper(pre, post, cl, obj, member, inp, returns) ==
    LET mf == LoopVariable(cl)
    IN _call_wrapped(pre, post, obj, mf, <<TupleV(inp.args)>>, inp.kwargs, returns[mf])

(* t = C(); t.member(args, kwargs), for the decorated class cl *)
Middleman_clCall(cl, member, inp, returns) ==
    /\ Len(outs) < MaxWrapperCalls
    /\ \E i \in DOMAIN cl : cl[i] = member
    /\ LET r == Middleman_cl_wrapper(pre_hook, post_hook, cl, ObjectV(1), member,
                                     inp, returns)
       IN /\ ran' = ran \o r.ran
          /\ outs' = Append(outs, ClassCall(member, ObjectV(1), inp,
                                            Return(returns[member]), r.out))
    /\ UNCHANGED <<engine, strict, _called, _cached_out, pre_hook, post_hook, test_cases>>

(* the object after construction, with or without fn *)
Construct(class) ==
    /\ cls = class
    /\ arg_map \in {NoneMap, NamesMap(<<"a", "b">>)}
    /\ attrs = [a \in AttrNames |->
                   IF a = "fn" THEN (IF arg_map.known THEN FnV(arg_map.names) ELSE NoneV)
                   ELSE IF a = "method_name" THEN StrV(<<>>)
                   ELSE Absent]
    /\ member_mocks = <<>>
    /\ heap = <<>>
    /\ _returns = NewExpectation.returns
    /\ calls = NewExpectation.calls
    /\ checks = NewExpectation.checks
    /\ call_expectations = NewExpectation.call_expectations
    /\ last = Op("init", NoArgs, Return(NoneV), 0)
    /\ log = <<>>
    /\ lastset = NotSet

(***************************************************************************)
(* The test suite of src/testing.py.  A case is the caller's function,     *)
(* taking no argument: case_fn is what it does when run, returning None    *)
(* or a TestResult, or raising an Exception.  A TestResult has passed in   *)
(* n (1 for True) and fail_reason in s; an exception has its message in    *)
(* s.  Text is a sequence of pieces, formatting concatenates them.         *)
(*   test_cases  the cases registered with the suite, in order             *)
(***************************************************************************)
suite_name == "test_suite_test"
Success == [tag |-> "TestResult", n |-> 1, s |-> <<>>, ty |-> ""]
Fail(reason) == [tag |-> "TestResult", n |-> 0, s |-> reason, ty |-> ""]
RuntimeErrorOf(message) == [tag |-> "RuntimeError", n |-> 0, s |-> message, ty |-> ""]
_test_case_data(case_name, case_fn) == [case_name |-> case_name, case_fn |-> case_fn]
_test_case_fail_result(case_name, fail_reason) ==
    [case_name |-> case_name, fail_reason |-> fail_reason]
_suite_result(passed, total, fails) == [passed |-> passed, total |-> total, fails |-> fails]

(* '{}.{} failed: {}'.format(suite_name, case_name, fail_reason) *)
FormatFail(fail) == <<suite_name, ".", fail.case_name, " failed: ">> \o fail.fail_reason

(* the loop of run_tests from the i-th case on: acc holds tc_passed, fails
   and the cases run so far.  A case that raises is caught and recorded as a
   fail *)
RECURSIVE RunCases(_, _, _)
RunCases(cases, i, acc) ==
    IF i > Len(cases) THEN acc
    ELSE LET tc == cases[i]
             result == tc.case_fn
             run == Append(acc.ran, Ran(tc.case_name, <<>>))
         IN IF result.kind = "raise"
            THEN RunCases(cases, i + 1,
                     [passed |-> acc.passed,
                      fails |-> Append(acc.fails,
                                  _test_case_fail_result(tc.case_name,
                                      <<"exception thrown: ">> \o result.val.s)),
                      ran |-> run])
            ELSE IF result.val = NoneV \/ result.val.n = 1
            THEN RunCases(cases, i + 1,
                     [passed |-> acc.passed + 1, fails |-> acc.fails, ran |-> run])
            ELSE RunCases(cases, i + 1,
                     [passed |-> acc.passed,
                      fails |-> Append(acc.fails,
                                  _test_case_fail_result(tc.case_name, result.val.s)),
                      ran |-> run])

(* mutant of run_tests: a case that raises ends the loop *)
run_tests_uncaught(cases) ==
    LET raising == {i \in 1..Len(cases) : cases[i].case_fn.kind = "raise"}
        upto == IF raising = {} THEN Len(cases)
                ELSE CHOOSE i \in raising : \A j \in raising : i <= j
        r == RunCases(SubSeq(cases, 1, upto), 1, [passed |-> 0, fails |-> <<>>, ran |-> <<>>])
    IN [ran |-> r.ran,
        out |-> Return(_suite_result(r.passed, Len(cases),
                         [j \in 1..Len(r.fails) |-> FormatFail(r.fails[j])]))]

(* TestSuite.run_tests: the cases that ran and the result returned *)
run_tests(cases) ==
    LET r == RunCases(cases, 1, [passed |-> 0, fails |-> <<>>, ran |-> <<>>])
    IN [ran |-> r.ran,
        out |-> Return(_suite_result(r.passed, Len(cases),
                         [j \in 1..Len(r.fails) |-> FormatFail(r.fails[j])]))]

(* TestSuite(suite_name): no case is registered *)
TestSuite__init__ == test_cases = <<>>

(* @TestCase(suite, details) on a function: TestCase.__call__ registers it *)
Register(case_name, case_fn) ==
    /\ Len(test_cases) < MaxCases
    /\ test_cases' = Append(test_cases, _test_case_data(case_name, case_fn))
    /\ UNCHANGED <<engine, strict, _called, _cached_out, pre_hook, post_hook, ran, outs>>

(* suite.run_tests() *)
RunTests ==
    /\ Len(outs) < MaxRuns
    /\ LET r == run_tests(test_cases)
       IN /\ ran' = ran \o r.ran
          /\ outs' = Append(outs, WrapperCall("run_tests", <<>>, Return(NoneV), r.out))
    /\ UNCHANGED <<engine, strict, _called, _cached_out, pre_hook, post_hook, test_cases>>

(***************************************************************************)
(* The strict mock of src/poc_db_mock.py: a Mock(fn) without members, kept *)
(* in the variable strict, with the nested Expectations of its rules.  It  *)
(* counts its calls instead of recording them and tests the count policies *)
(* in __call__.  The arguments of these tests are ints, for which == is    *)
(* equality of values.                                                     *)
(***************************************************************************)
(* Expectation.__init__(fn, method_name) *)
StrictExpectation(fn) ==
    [fn |-> fn,
     arg_map |-> IF fn.tag = "function" THEN NamesMap(fn.s) ELSE NoneMap,
     expects_once |-> FALSE, expects_never |-> FALSE, n_calls |-> 0,
     to_raise |-> NoneV, rv |-> NoneV, call_expectations |-> <<>>]

(* mutant of _on_call_checks: the policy is tested before the call is
   counted, so a rejected call is not counted *)
_on_call_checks_first(e) ==
    IF e.expects_never \/ (e.expects_once /\ e.n_calls + 1 > 1)
    THEN [err |-> "AssertionError", e |-> e]
    ELSE [err |-> "", e |-> [e EXCEPT !.n_calls = @ + 1]]

(* _on_call_checks: the call is counted, then the policies are tested *)
_on_call_checks(e) ==
    LET counted == [e EXCEPT !.n_calls = @ + 1]
    IN IF counted.expects_never THEN [err |-> "AssertionError", e |-> counted]
       ELSE IF counted.expects_once /\ counted.n_calls > 1
       THEN [err |-> "AssertionError", e |-> counted]
       ELSE [err |-> "", e |-> counted]

(* _merge_kwargs: refuses without fn, else as _normalize_args of mock.py *)
_merge_kwargs(e, args, kwargs) ==
    IF e.fn.tag = "NoneType" \/ ~e.arg_map.known
    THEN [err |-> "AssertionError", val |-> DictOf(<<>>)]
    ELSE MergePositional(kwargs, e.arg_map.names, args, 1)

(* _kwargs_match: the same keys, and equal dicts or equal values *)
_kwargs_match(expected, actual) ==
    /\ Keys(expected.items) = Keys(actual.items)
    /\ \/ SameDict(expected.items, actual.items)
       \/ \A i \in DOMAIN expected.items :
             expected.items[i].v = Get(actual.items, expected.items[i].k)

(* the loop of _on_call_dispatch: the first rule the call matches, or 0 *)
RECURSIVE StrictFirstRule(_, _, _)
StrictFirstRule(merged_args, rules, i) ==
    IF i > Len(rules) THEN 0
    ELSE IF _kwargs_match(merged_args, rules[i].matcher) THEN i
    ELSE StrictFirstRule(merged_args, rules, i + 1)

(* the end of _on_call_dispatch: to_raise is raised if set, else rv *)
StrictResponse(e) ==
    IF e.to_raise # NoneV THEN Raise(e.to_raise) ELSE Return(e.rv)

(* Expectation.__call__ of poc_db_mock.py: _on_call_checks, then
   _on_call_dispatch, which hands the call to the nested Expectation of the
   first matching rule when fn is given; the outcome, the object afterwards
   and the rule that answered (0: the object's own response, -1: none) *)
RECURSIVE Strict__call__(_, _, _)
Strict__call__(e, args, kwargs) ==
    LET c == _on_call_checks(e)
    IN IF c.err # "" THEN [out |-> Raise(ExcV(c.err, 0)), e |-> c.e, rule |-> -1]
       ELSE IF e.fn.tag = "NoneType"
       THEN [out |-> StrictResponse(c.e), e |-> c.e, rule |-> 0]
       ELSE LET m == _merge_kwargs(c.e, args, kwargs)
            IN IF m.err # ""
               THEN [out |-> Raise(ExcV(m.err, 0)), e |-> c.e, rule |-> -1]
               ELSE LET w == StrictFirstRule(m.val, c.e.call_expectations, 1)
                    IN IF w = 0
                       THEN [out |-> StrictResponse(c.e), e |-> c.e, rule |-> 0]
                       ELSE LET r == Strict__call__(c.e.call_expectations[w].exp,
                                                    args, kwargs)
                            IN [out |-> r.out,
                                e |-> [c.e EXCEPT !.call_expectations[w].exp = r.e],
                                rule |-> w]

(* Expectation.verify of poc_db_mock.py; Mock.verify has no member to visit *)
Strict_verify(e) ==
    IF e.expects_never /\ e.n_calls > 0 THEN Raise(AssertionError)
    ELSE IF e.expects_once /\ e.n_calls < 1 THEN Raise(AssertionError)
    ELSE IF e.expects_once /\ e.n_calls > 1 THEN Raise(AssertionError)
    ELSE Return(TrueV)

(* what an operation on the strict mock leaves alone *)
StrictFrame ==
    UNCHANGED <<arg_map, calls, checks, call_expectations, _returns, log, lastset,
                members, _called, _cached_out, pre_hook, post_hook, test_cases,
                ran, outs>>

(* s(args, kwargs) *)
StrictCall(inp) ==
    /\ strict.n_calls < MaxCalls
    /\ LET r == Strict__call__(strict, inp.args, inp.kwargs)
       IN /\ strict' = r.e
          /\ last' = Op("strict.call", inp, r.out, r.rule)
    /\ StrictFrame

(* s.on(args, kwargs): the nested Expectation takes fn and method_name *)
StrictOn(inp) ==
    /\ Len(strict.call_expectations) < MaxRules
    /\ LET call_matcher == _merge_kwargs(strict, inp.args, inp.kwargs)
       IN IF call_matcher.err # ""
          THEN /\ last' = Op("strict.on", inp, Raise(ExcV(call_matcher.err, 0)), 0)
               /\ UNCHANGED strict
          ELSE /\ strict' = [strict EXCEPT !.call_expectations =
                                Append(@, [matcher |-> call_matcher.val,
                                           exp |-> StrictExpectation(strict.fn)])]
               /\ last' = Op("strict.on", inp,
                             Return(NestedV(Len(strict.call_expectations) + 1)), 0)
    /\ StrictFrame

(* s.once() *)
StrictOnce ==
    /\ strict' = [strict EXCEPT !.expects_once = TRUE]
    /\ last' = Op("strict.once", NoArgs, Return(SelfV), 0)
    /\ StrictFrame

(* s.never() *)
StrictNever ==
    /\ strict' = [strict EXCEPT !.expects_never = TRUE]
    /\ last' = Op("strict.never", NoArgs, Return(SelfV), 0)
    /\ StrictFrame

(* s.returns(rv) *)
StrictReturns(rv) ==
    /\ strict' = [strict EXCEPT !.rv = rv]
    /\ last' = Op("strict.returns", NoArgs, Return(SelfV), 0)
    /\ StrictFrame

(* s.raises(ex) *)
StrictRaises(ex) ==
    /\ strict' = [strict EXCEPT !.to_raise = ex]
    /\ last' = Op("strict.raises", NoArgs, Return(SelfV), 0)
    /\ StrictFrame

(* r.returns(rv), r the nested Expectation that the i-th on() returned *)
StrictRuleReturns(i, rv) ==
    /\ i \in DOMAIN strict.call_expectations
    /\ strict' = [strict EXCEPT !.call_expectations[i].exp.rv = rv]
    /\ last' = Op("strict.rule.returns", NoArgs, Return(NestedV(i)), 0)
    /\ StrictFrame

(* s.verify() *)
StrictVerify ==
    /\ last' = Op("strict.verify", NoArgs, Strict_verify(strict), 0)
    /\ UNCHANGED strict
    /\ StrictFrame

(* s.restore(): Expectation.restore calls self.__init__(self, self.fn,
   self.method_name), one argument more than __init__ takes, so it raises
   TypeError before anything is reset *)
StrictRestore ==
    /\ last' = Op("strict.restore", NoArgs, Raise(TypeError), 0)
    /\ UNCHANGED strict
    /\ StrictFrame

(* no decorator of src/once.py or src/middleman.py, no test suite and no
   strict mock is in use *)
Idle ==
    /\ Decorated
    /\ Middleman__init__(NoneV, NoneV)
    /\ TestSuite__init__
    /\ strict = StrictExpectation(NoneV)

(* Mock(fn=f) or Mock(): Mock.__init__ runs Expectation.__init__ *)
Init == Construct("Mock") /\ Idle

(* Expectation(fn=f) or Expectation() *)
InitExpectation == Construct("Expectation") /\ Idle

(* mutant of Call: an exact-count check is enforced by the invocation, which
   raises instead of recording once the count is reached *)
CallEnforcing(inp) ==
    /\ Len(calls) < MaxCalls
    /\ LET r == __call__(arg_map, Self, inp.args, inp.kwargs)
           spent == \E i \in DOMAIN checks :
                        checks[i].kind = "CalledExactly" /\ Len(calls) >= checks[i].n_times
       IN IF spent
          THEN /\ last' = Op("call", inp, Raise(AssertionError), -1)
               /\ UNCHANGED <<calls, call_expectations, log>>
          ELSE /\ calls' = r.e.calls
               /\ call_expectations' = r.e.call_expectations
               /\ last' = Op("call", inp, r.out, r.rule)
               /\ log' = IF _normalize_args(arg_map, inp.args, inp.kwargs).err = ""
                         THEN Append(log, inp) ELSE log
    /\ UNCHANGED <<utils, members, arg_map, checks, _returns, lastset>>

(* mutant of Call: a rule answers one call only; the invocation takes the
   rule that answered it out of the rule list *)
CallConsuming(inp) ==
    /\ Len(calls) < MaxCalls
    /\ LET r == __call__(arg_map, Self, inp.args, inp.kwargs)
       IN /\ calls' = r.e.calls
          /\ call_expectations' =
                 IF r.rule \in DOMAIN call_expectations
                 THEN SubSeq(r.e.call_expectations, 1, r.rule - 1)
                      \o SubSeq(r.e.call_expectations, r.rule + 1,
                                Len(call_expectations))
                 ELSE r.e.call_expectations
          /\ last' = Op("call", inp, r.out, r.rule)
    /\ log' = IF _normalize_args(arg_map, inp.args, inp.kwargs).err = ""
              THEN Append(log, inp) ELSE log
    /\ UNCHANGED <<utils, members, arg_map, checks, _returns, lastset>>

(* m(args, kwargs) *)
Call(inp) ==
    /\ Len(calls) < MaxCalls
    /\ LET r == __call__(arg_map, Self, inp.args, inp.kwargs)
       IN /\ calls' = r.e.calls
          /\ call_expectations' = r.e.call_expectations
          /\ last' = Op("call", inp, r.out, r.rule)
    /\ log' = IF _normalize_args(arg_map, inp.args, inp.kwargs).err = ""
              THEN Append(log, inp) ELSE log
    /\ UNCHANGED <<utils, members, arg_map, checks, _returns, lastset>>

(* mutant of On: the nested Expectation starts as a copy of the root, with
   its default response, history and checks *)
OnInherit(inp) ==
    /\ Len(call_expectations) < MaxRules
    /\ LET call_matcher == _normalize_args(arg_map, inp.args, inp.kwargs)
           nested == Expectation__init__(attrs["fn"])
       IN IF call_matcher.err # ""
          THEN /\ last' = Op("on", inp, Raise(ExcV(call_matcher.err, 0)), 0)
               /\ UNCHANGED call_expectations
          ELSE IF attrs["fn"] = Absent \/ nested.err # ""
          THEN /\ last' = Op("on", inp, Raise(AttributeError), 0)
               /\ UNCHANGED call_expectations
          ELSE /\ call_expectations' =
                     Append(call_expectations,
                            [matcher |-> call_matcher.val,
                             exp |-> [NewExpectation EXCEPT !.returns = _returns,
                                                            !.calls = calls,
                                                            !.checks = checks]])
               /\ last' = Op("on", inp, Return(NestedV(Len(call_expectations) + 1)), 0)
    /\ UNCHANGED <<utils, members, arg_map, calls, checks, _returns, log, lastset>>

(* m.on(args, kwargs); the nested Expectation is constructed from the root's
   fn, before anything is appended *)
On(inp) ==
    /\ Len(call_expectations) < MaxRules
    /\ LET call_matcher == _normalize_args(arg_map, inp.args, inp.kwargs)
           nested == Expectation__init__(attrs["fn"])
       IN IF call_matcher.err # ""
          THEN /\ last' = Op("on", inp, Raise(ExcV(call_matcher.err, 0)), 0)
               /\ UNCHANGED call_expectations
          ELSE IF attrs["fn"] = Absent \/ nested.err # ""
          THEN /\ last' = Op("on", inp, Raise(AttributeError), 0)
               /\ UNCHANGED call_expectations
          ELSE /\ call_expectations' =
                     Append(call_expectations,
                            [matcher |-> call_matcher.val, exp |-> NewExpectation])
               /\ last' = Op("on", inp, Return(NestedV(Len(call_expectations) + 1)), 0)
    /\ UNCHANGED <<utils, members, arg_map, calls, checks, _returns, log, lastset>>

AppendCheck(check) == Append(checks, check)

(* m.never() *)
Never ==
    /\ Len(checks) < MaxChecks
    /\ checks' = AppendCheck(CalledExactly(0))
    /\ last' = Op("never", NoArgs, Return(SelfV), 0)
    /\ UNCHANGED <<utils, members, arg_map, calls, call_expectations, _returns, log, lastset>>

(* m.once() *)
Once ==
    /\ Len(checks) < MaxChecks
    /\ checks' = AppendCheck(CalledExactly(1))
    /\ last' = Op("once", NoArgs, Return(SelfV), 0)
    /\ UNCHANGED <<utils, members, arg_map, calls, call_expectations, _returns, log, lastset>>

(* m.at_least(n_times) *)
AtLeast(n_times) ==
    /\ Len(checks) < MaxChecks
    /\ checks' = AppendCheck(CalledAtLeast(n_times))
    /\ last' = Op("at_least", NoArgs, Return(SelfV), 0)
    /\ UNCHANGED <<utils, members, arg_map, calls, call_expectations, _returns, log, lastset>>

(* m.called_with(args, kwargs); the method has no return statement *)
CalledWithOp(inp) ==
    /\ Len(checks) < MaxChecks
    /\ LET merged_args == _normalize_args(arg_map, inp.args, inp.kwargs)
       IN IF merged_args.err # ""
          THEN /\ last' = Op("called_with", inp, Raise(ExcV(merged_args.err, 0)), 0)
               /\ UNCHANGED checks
          ELSE /\ checks' = AppendCheck(CalledWith(merged_args.val))
               /\ last' = Op("called_with", inp, Return(NoneV), 0)
    /\ UNCHANGED <<utils, members, arg_map, calls, call_expectations, _returns, log, lastset>>

(* mutant of Returns: a configured failure stays in effect *)
ReturnsUnlessRaising(rv) ==
    /\ _returns' = IF _returns.kind = "raise" THEN _returns ELSE ReturnsValue(rv)
    /\ lastset' = [op |-> "returns", val |-> rv]
    /\ last' = Op("returns", NoArgs, Return(SelfV), 0)
    /\ UNCHANGED <<utils, members, arg_map, calls, checks, call_expectations, log>>

(* m.returns(rv) *)
Returns(rv) ==
    /\ _returns' = ReturnsValue(rv)
    /\ lastset' = [op |-> "returns", val |-> rv]
    /\ last' = Op("returns", NoArgs, Return(SelfV), 0)
    /\ UNCHANGED <<utils, members, arg_map, calls, checks, call_expectations, log>>

(* m.raises(ex) *)
Raises(ex) ==
    /\ _returns' = RaisesEx(ex)
    /\ lastset' = [op |-> "raises", val |-> ex]
    /\ last' = Op("raises", NoArgs, Return(SelfV), 0)
    /\ UNCHANGED <<utils, members, arg_map, calls, checks, call_expectations, log>>

(* r.returns(rv), r the nested Expectation that the i-th on() returned *)
RuleReturns(i, rv) ==
    /\ i \in DOMAIN call_expectations
    /\ call_expectations' =
           [call_expectations EXCEPT ![i].exp.returns = ReturnsValue(rv)]
    /\ last' = Op("rule.returns", NoArgs, Return(NestedV(i)), 0)
    /\ UNCHANGED <<utils, members, arg_map, calls, checks, _returns, log, lastset>>

(* r.raises(ex), r the nested Expectation that the i-th on() returned *)
RuleRaises(i, ex) ==
    /\ i \in DOMAIN call_expectations
    /\ call_expectations' =
           [call_expectations EXCEPT ![i].exp.returns = RaisesEx(ex)]
    /\ last' = Op("rule.raises", NoArgs, Return(NestedV(i)), 0)
    /\ UNCHANGED <<utils, members, arg_map, calls, checks, _returns, log, lastset>>

(* r.never(), r the nested Expectation that the i-th on() returned *)
RuleNever(i) ==
    /\ i \in DOMAIN call_expectations
    /\ Len(call_expectations[i].exp.checks) < MaxChecks
    /\ call_expectations' =
           [call_expectations EXCEPT ![i].exp.checks = Append(@, CalledExactly(0))]
    /\ last' = Op("rule.never", NoArgs, Return(NestedV(i)), 0)
    /\ UNCHANGED <<utils, members, arg_map, calls, checks, _returns, log, lastset>>

(* r.called_with(args, kwargs), r the nested Expectation that the i-th on()
   returned; it has the root's fn *)
RuleCalledWith(i, inp) ==
    /\ i \in DOMAIN call_expectations
    /\ Len(call_expectations[i].exp.checks) < MaxChecks
    /\ LET merged_args == _normalize_args(arg_map, inp.args, inp.kwargs)
       IN IF merged_args.err # ""
          THEN /\ last' = Op("rule.called_with", inp, Raise(ExcV(merged_args.err, 0)), i)
               /\ UNCHANGED call_expectations
          ELSE /\ call_expectations' =
                     [call_expectations EXCEPT
                        ![i].exp.checks = Append(@, CalledWith(merged_args.val))]
               /\ last' = Op("rule.called_with", inp, Return(NoneV), i)
    /\ UNCHANGED <<utils, members, arg_map, calls, checks, _returns, log, lastset>>

(* r.verify(), r the nested Expectation that the i-th on() returned *)
RuleVerify(i) ==
    /\ i \in DOMAIN call_expectations
    /\ last' = Op("rule.verify", NoArgs,
                  verify(call_expectations[i].exp.checks,
                         call_expectations[i].exp.calls, 1), i)
    /\ UNCHANGED <<utils, members, arg_map, calls, checks, call_expectations, _returns, log, lastset>>

(* Mock.verify: getattr(self, mf).verify() for the names of member_mocks in
   order, then Expectation.verify on the Mock itself; a member is a Mock
   without members of its own *)
RECURSIVE Mock_verify(_)
Mock_verify(i) ==
    IF i > Len(member_mocks) THEN verify(checks, calls, 1)
    ELSE IF attrs[member_mocks[i]].tag # "Mock" THEN Raise(AttributeError)
    ELSE LET mf == heap[attrs[member_mocks[i]].n].e
             r == verify(mf.checks, mf.calls, 1)
         IN IF r.kind = "raise" THEN r ELSE Mock_verify(i + 1)

(* mutant of Verify: the checks that were evaluated are used up *)
VerifyConsuming ==
    /\ last' = Op("verify", NoArgs,
                  IF cls = "Mock" THEN Mock_verify(1) ELSE verify(checks, calls, 1), 0)
    /\ checks' = <<>>
    /\ UNCHANGED <<utils, members, arg_map, calls, call_expectations, _returns, log, lastset>>

(* mutant of Verify: the checks of the rules' nested Expectations are
   evaluated too, after the object's own *)
VerifyDeep ==
    /\ LET own == IF cls = "Mock" THEN Mock_verify(1) ELSE verify(checks, calls, 1)
           failing == {i \in DOMAIN call_expectations :
                          verify(call_expectations[i].exp.checks,
                                 call_expectations[i].exp.calls, 1).kind = "raise"}
       IN last' = Op("verify", NoArgs,
                     IF own.kind = "raise" \/ failing = {} THEN own
                     ELSE Raise(AssertionError), 0)
    /\ UNCHANGED <<utils, members, arg_map, calls, checks, call_expectations, _returns, log, lastset>>

(* m.verify(): Mock.verify on a Mock, Expectation.verify otherwise *)
Verify ==
    /\ last' = Op("verify", NoArgs,
                  IF cls = "Mock" THEN Mock_verify(1) ELSE verify(checks, calls, 1), 0)
    /\ UNCHANGED <<utils, members, arg_map, calls, checks, call_expectations, _returns, log, lastset>>

(* the loop of Mock.restore: delattr(self, method_name) for the names of
   member_mocks in order; deleting an attribute that is not there raises *)
RECURSIVE DelAttrs(_, _, _)
DelAttrs(at, names, i) ==
    IF i > Len(names) THEN [err |-> "", attrs |-> at]
    ELSE IF at[names[i]] = Absent THEN [err |-> "AttributeError", attrs |-> at]
    ELSE DelAttrs([at EXCEPT ![names[i]] = Absent], names, i + 1)

(* m.restore() on a Mock: Mock.restore deletes the members' attributes, then
   Expectation.restore reads method_name and fn and runs
   Mock.__init__(method_name, fn), where fn is None or a function again
   once a member named fn was deleted.  The members are no longer reachable
   from the Mock afterwards, and the test drops them. *)
Restore ==
    /\ cls = "Mock"
    /\ LET d == DelAttrs(attrs, member_mocks, 1)
           init == Expectation__init__(d.attrs["fn"])
       IN IF d.err # "" \/ d.attrs["fn"] = Absent
          THEN /\ attrs' = d.attrs
               /\ last' = Op("restore", NoArgs, Raise(AttributeError), 0)
               /\ UNCHANGED <<arg_map, _returns, calls, checks, call_expectations,
                              log, lastset, member_mocks, heap>>
          ELSE /\ attrs' = d.attrs
               /\ arg_map' = init.arg_map
               /\ _returns' = NewExpectation.returns
               /\ calls' = NewExpectation.calls
               /\ checks' = NewExpectation.checks
               /\ call_expectations' = NewExpectation.call_expectations
               /\ member_mocks' = <<>>
               /\ heap' = <<>>
               /\ last' = Op("restore", NoArgs, Return(SelfV), 0)
               /\ log' = <<>>
               /\ lastset' = NotSet
    /\ UNCHANGED <<utils, cls>>

(* e.restore() on an Expectation: self.__init__(self.method_name, self.fn)
   runs Expectation.__init__(fn, method_name), so the name arrives as fn and
   fn as the name; __init__ assigns fn, method_name and arg_map = None, and
   fails at fn.__code__ before it resets anything else when fn is a str *)
ExpectationRestore ==
    /\ cls = "Expectation"
    /\ LET fn == attrs["method_name"]
           method_name == attrs["fn"]
           init == Expectation__init__(fn)
       IN /\ attrs' = [attrs EXCEPT !["fn"] = fn, !["method_name"] = method_name]
          /\ arg_map' = init.arg_map
          /\ IF init.err # ""
             THEN /\ last' = Op("restore", NoArgs, Raise(ExcV(init.err, 0)), 0)
                  /\ UNCHANGED <<_returns, calls, checks, call_expectations, log, lastset>>
             ELSE /\ _returns' = NewExpectation.returns
                  /\ calls' = NewExpectation.calls
                  /\ checks' = NewExpectation.checks
                  /\ call_expectations' = NewExpectation.call_expectations
                  /\ last' = Op("restore", NoArgs, Return(SelfV), 0)
                  /\ log' = <<>>
                  /\ lastset' = NotSet
    /\ UNCHANGED <<utils, cls, member_mocks, heap>>

(***************************************************************************)
(* Member mocks.  mf stands for the value that the id-th expects()         *)
(* returned, m.name for the attribute of the Mock.                         *)
(***************************************************************************)
(* the members' calls (rules) are bounded together: the sum of the counts *)
RECURSIVE MemberTotal(_)
MemberTotal(counts) ==
    IF counts = <<>> THEN 0 ELSE Head(counts) + MemberTotal(Tail(counts))

(* mutant of Expects: a name that is registered already keeps its member *)
ExpectsKeepFirst(method_name, fn) ==
    /\ cls = "Mock"
    /\ Len(member_mocks) < MaxMembers
    /\ member_mocks' = Append(member_mocks, method_name)
    /\ heap' = Append(heap, NewMock(method_name, fn))
    /\ attrs' = IF attrs[method_name].tag = "Mock" THEN attrs
                ELSE [attrs EXCEPT ![method_name] = MockV(Len(heap) + 1)]
    /\ last' = MemberOp(Len(heap) + 1, method_name, "expects", Raw(<<fn>>, <<>>),
                        Return(MockV(Len(heap) + 1)), 0)
    /\ UNCHANGED <<utils, cls, arg_map, calls, checks, call_expectations, _returns, log, lastset>>

(* m.expects(method_name, fn): the name is appended to member_mocks, a new
   Mock is set as the attribute of that name and returned *)
Expects(method_name, fn) ==
    /\ cls = "Mock"
    /\ Len(member_mocks) < MaxMembers
    /\ member_mocks' = Append(member_mocks, method_name)
    /\ heap' = Append(heap, NewMock(method_name, fn))
    /\ attrs' = [attrs EXCEPT ![method_name] = MockV(Len(heap) + 1)]
    /\ last' = MemberOp(Len(heap) + 1, method_name, "expects", Raw(<<fn>>, <<>>),
                        Return(MockV(Len(heap) + 1)), 0)
    /\ UNCHANGED <<utils, cls, arg_map, calls, checks, call_expectations, _returns, log, lastset>>

(* m.name(args, kwargs), for a name the test passed to expects(): the
   attribute is looked up, and the Mock it holds is invoked *)
MemberCall(name, inp) ==
    /\ cls = "Mock"
    /\ attrs[name].tag \in {"Mock", "absent"}
    /\ IF attrs[name] = Absent
       THEN /\ last' = MemberOp(0, name, "getattr", inp, Raise(AttributeError), 0)
            /\ UNCHANGED heap
       ELSE LET id == attrs[name].n
                r == __call__(heap[id].arg_map, heap[id].e, inp.args, inp.kwargs)
            IN /\ MemberTotal([i \in DOMAIN heap |-> Len(heap[i].e.calls)]) < MaxCalls
               /\ heap' = [heap EXCEPT ![id].e = r.e]
               /\ last' = MemberOp(id, name, "call", inp, r.out, r.rule)
    /\ UNCHANGED <<utils, cls, attrs, member_mocks, arg_map, calls, checks,
                   call_expectations, _returns, log, lastset>>

(* mf.on(args, kwargs) *)
MemberOn(id, inp) ==
    /\ id \in DOMAIN heap
    /\ MemberTotal([i \in DOMAIN heap |-> Len(heap[i].e.call_expectations)]) < MaxRules
    /\ LET call_matcher == _normalize_args(heap[id].arg_map, inp.args, inp.kwargs)
       IN IF call_matcher.err # ""
          THEN /\ last' = MemberOp(id, heap[id].method_name, "on", inp, Raise(ExcV(call_matcher.err, 0)), 0)
               /\ UNCHANGED heap
          ELSE /\ heap' = [heap EXCEPT ![id].e.call_expectations =
                               Append(@, [matcher |-> call_matcher.val,
                                          exp |-> NewExpectation])]
               /\ last' = MemberOp(id, heap[id].method_name, "on", inp,
                                   Return(NestedV(Len(heap[id].e.call_expectations) + 1)), 0)
    /\ UNCHANGED <<utils, cls, attrs, member_mocks, arg_map, calls, checks,
                   call_expectations, _returns, log, lastset>>

(* mf.returns(rv) *)
MemberReturns(id, rv) ==
    /\ id \in DOMAIN heap
    /\ heap' = [heap EXCEPT ![id].e.returns = ReturnsValue(rv)]
    /\ last' = MemberOp(id, heap[id].method_name, "returns", NoArgs, Return(MockV(id)), 0)
    /\ UNCHANGED <<utils, cls, attrs, member_mocks, arg_map, calls, checks,
                   call_expectations, _returns, log, lastset>>

(* mf.never() *)
MemberNever(id) ==
    /\ id \in DOMAIN heap
    /\ Len(heap[id].e.checks) < MaxChecks
    /\ heap' = [heap EXCEPT ![id].e.checks = Append(@, CalledExactly(0))]
    /\ last' = MemberOp(id, heap[id].method_name, "never", NoArgs, Return(MockV(id)), 0)
    /\ UNCHANGED <<utils, cls, attrs, member_mocks, arg_map, calls, checks,
                   call_expectations, _returns, log, lastset>>

(* mf.called_with(args, kwargs) *)
MemberCalledWith(id, inp) ==
    /\ id \in DOMAIN heap
    /\ Len(heap[id].e.checks) < MaxChecks
    /\ LET merged_args == _normalize_args(heap[id].arg_map, inp.args, inp.kwargs)
       IN IF merged_args.err # ""
          THEN /\ last' = MemberOp(id, heap[id].method_name, "called_with", inp,
                                   Raise(ExcV(merged_args.err, 0)), 0)
               /\ UNCHANGED heap
          ELSE /\ heap' = [heap EXCEPT ![id].e.checks =
                               Append(@, CalledWith(merged_args.val))]
               /\ last' = MemberOp(id, heap[id].method_name, "called_with", inp, Return(NoneV), 0)
    /\ UNCHANGED <<utils, cls, attrs, member_mocks, arg_map, calls, checks,
                   call_expectations, _returns, log, lastset>>

(***************************************************************************)
(* The values the tests use.                                               *)
(***************************************************************************)
I2 == IntV(2)
I3 == IntV(3)
I9 == IntV(9)
I10 == IntV(10)
Sab == StrV(<<"a", "b">>)
LikeA == Like(<<"a">>)
OfInt == OfType("int")
ValueError1 == ExcV("ValueError", 1)
ValueError2 == ExcV("ValueError", 2)

(***************************************************************************)
(* Tests of dispatch: rules with responses, a default response, and        *)
(* invocations by position or by keyword.                                  *)
(***************************************************************************)
DispatchCalls ==
    { Raw(<<I2>>, <<>>),
      Raw(<<I3>>, <<>>),
      Raw(<<Sab>>, <<>>),
      Raw(<<>>, <<KV("a", I2)>>) }

DispatchPatterns ==
    { Raw(<<I2>>, <<>>),
      Raw(<<OfInt>>, <<>>),
      Raw(<<LikeA>>, <<>>) }

NextDispatch ==
    \/ \E inp \in DispatchCalls : Call(inp)
    \/ \E inp \in DispatchPatterns : On(inp)
    \/ Returns(I9)
    \/ Raises(ValueError1)
    \/ \E i \in 1..MaxRules : RuleReturns(i, I10)
    \/ \E i \in 1..MaxRules : RuleRaises(i, ValueError2)

SpecDispatch == Init /\ [][NextDispatch]_vars

(***************************************************************************)
(* Tests of recording and of the default response: the default response    *)
(* is set several times, rules answer with a failure, a rule's matcher     *)
(* may reject the argument's type.                                         *)
(***************************************************************************)
RecordCalls ==
    { Raw(<<I2>>, <<>>),
      Raw(<<Sab>>, <<>>),
      Raw(<<>>, <<KV("a", I2)>>) }

NextRecord ==
    \/ \E inp \in RecordCalls : Call(inp)
    \/ On(Raw(<<LikeA>>, <<>>))
    \/ Returns(I9)
    \/ Raises(ValueError1)
    \/ \E i \in 1..MaxRules : RuleRaises(i, ValueError2)
    \/ Restore

SpecRecord == Init /\ [][NextRecord]_vars

(***************************************************************************)
(* Tests of the default response: returns() and raises() called again and  *)
(* again, between invocations that no rule or only some rule answers.      *)
(***************************************************************************)
DefaultCalls ==
    { Raw(<<I2>>, <<>>),
      Raw(<<I3>>, <<>>) }

NextDefault ==
    \/ \E inp \in DefaultCalls : Call(inp)
    \/ On(Raw(<<I2>>, <<>>))
    \/ \E rv \in {I9, I10} : Returns(rv)
    \/ \E ex \in {ValueError1, ValueError2} : Raises(ex)
    \/ Restore

SpecDefault == Init /\ [][NextDefault]_vars

(***************************************************************************)
(* Tests of verification: checks, invocations, verify and restore.         *)
(***************************************************************************)
VerifyCalls ==
    { NoArgs,
      Raw(<<I2>>, <<>>),
      Raw(<<Sab>>, <<>>) }

VerifyPatterns ==
    { Raw(<<I2>>, <<>>),
      Raw(<<LikeA>>, <<>>),
      Raw(<<>>, <<KV("a", OfInt)>>) }

NextVerify ==
    \/ \E inp \in VerifyCalls : Call(inp)
    \/ Never
    \/ Once
    \/ \E n \in 1..MaxAtLeast : AtLeast(n)
    \/ \E inp \in VerifyPatterns : CalledWithOp(inp)
    \/ Raises(ValueError1)
    \/ Verify
    \/ Restore

SpecVerify == Init /\ [][NextVerify]_vars

(***************************************************************************)
(* Tests of normalization: the same values passed by position, by keyword, *)
(* or both, to invocations, on() and called_with().                        *)
(***************************************************************************)
ArgsCalls ==
    { Raw(<<I3>>, <<>>),
      Raw(<<I2, I3>>, <<>>),
      Raw(<<I2>>, <<KV("b", I3)>>),
      Raw(<<>>, <<KV("a", I2), KV("b", I3)>>),
      Raw(<<I3>>, <<KV("a", I2)>>),
      Raw(<<I2, I3, I2>>, <<>>) }

ArgsRules ==
    { Raw(<<LikeA, I2>>, <<>>),
      Raw(<<I3>>, <<KV("a", I2)>>) }

ArgsChecks ==
    { Raw(<<>>, <<KV("a", I2), KV("b", I3)>>),
      Raw(<<I3>>, <<KV("a", I2)>>) }

NextArgs ==
    \/ \E inp \in ArgsCalls : Call(inp)
    \/ \E inp \in ArgsRules : On(inp)
    \/ \E inp \in ArgsChecks : CalledWithOp(inp)
    \/ Verify

SpecArgs == Init /\ [][NextArgs]_vars

(***************************************************************************)
(* Tests of a Mock with members: names registered once or twice, checks    *)
(* declared on the members and on the Mock, invocations by member name,    *)
(* verify and restore of the Mock.                                         *)
(***************************************************************************)
MemberCalls ==
    { Raw(<<I2>>, <<>>),
      Raw(<<Sab>>, <<>>) }

NextMembers ==
    \/ \E name \in MemberNames : Expects(name, NoneV)
    \/ \E name \in MemberNames, inp \in MemberCalls : MemberCall(name, inp)
    \/ \E id \in 1..MaxMembers : MemberNever(id)
    \/ \E id \in 1..MaxMembers : MemberCalledWith(id, Raw(<<LikeA>>, <<>>))
    \/ Call(NoArgs)
    \/ Never
    \/ Verify
    \/ Restore

SpecMembers == Init /\ [][NextMembers]_vars

(***************************************************************************)
(* Tests of dispatch through a member: a member with a signature and one   *)
(* without, rules and a default response declared through the value that   *)
(* expects() returned, invocations through the Mock's attribute.           *)
(***************************************************************************)
Fab == FnV(<<"a", "b">>)

MemberDispatchCalls ==
    { Raw(<<I2>>, <<>>),
      Raw(<<>>, <<KV("a", I2)>>) }

NextMemberDispatch ==
    \/ Expects("f", Fab)
    \/ Expects("fn", NoneV)
    \/ \E id \in 1..MaxMembers : MemberOn(id, Raw(<<I2>>, <<>>))
    \/ \E id \in 1..MaxMembers : MemberReturns(id, I9)
    \/ \E name \in MemberNames, inp \in MemberDispatchCalls : MemberCall(name, inp)

(* m = Mock() *)
InitNoFn == Init /\ ~arg_map.known

SpecMemberDispatch == InitNoFn /\ [][NextMemberDispatch]_vars

(***************************************************************************)
(* Tests of a standalone Expectation: every configuration operation,       *)
(* invocations, verify and restore.                                        *)
(***************************************************************************)
NextExpectation ==
    \/ Call(Raw(<<I2>>, <<>>))
    \/ On(Raw(<<I2>>, <<>>))
    \/ Never
    \/ Once
    \/ \E n \in 1..MaxAtLeast : AtLeast(n)
    \/ CalledWithOp(Raw(<<I2>>, <<>>))
    \/ Returns(I9)
    \/ Raises(ValueError1)
    \/ Verify
    \/ ExpectationRestore

SpecExpectation == InitExpectation /\ [][NextExpectation]_vars

(***************************************************************************)
(* Tests of the key sets: a parameter left out against the same parameter  *)
(* passed as None, in invocations, rules and called_with patterns.         *)
(***************************************************************************)
KeysCalls ==
    { Raw(<<I2>>, <<>>),
      Raw(<<>>, <<KV("a", I2)>>),
      Raw(<<I2, NoneV>>, <<>>),
      Raw(<<>>, <<KV("a", I2), KV("b", NoneV)>>) }

KeysRules ==
    { Raw(<<I2>>, <<>>),
      Raw(<<I2, NoneV>>, <<>>) }

NextKeys ==
    \/ \E inp \in KeysCalls : Call(inp)
    \/ \E inp \in KeysRules : On(inp)
    \/ CalledWithOp(Raw(<<I2>>, <<>>))
    \/ Verify

SpecKeys == Init /\ [][NextKeys]_vars

(***************************************************************************)
(* Tests of positional rules: rules of two values, one of them a pattern,  *)
(* and invocations with one, two or three positional arguments.            *)
(***************************************************************************)
PositionalCalls ==
    { Raw(<<I2>>, <<>>),
      Raw(<<I2, I3>>, <<>>),
      Raw(<<Sab, I3>>, <<>>),
      Raw(<<I2, I3, I2>>, <<>>) }

PositionalRules ==
    { Raw(<<I2, I3>>, <<>>),
      Raw(<<LikeA, I3>>, <<>>) }

NextPositional ==
    \/ \E inp \in PositionalCalls : Call(inp)
    \/ \E inp \in PositionalRules : On(inp)
    \/ \E i \in 1..MaxRules : RuleReturns(i, I10)
    \/ Returns(I9)

SpecPositional == Init /\ [][NextPositional]_vars

(***************************************************************************)
(* Tests of Once: calls of a wrapped function that returns its argument    *)
(* or raises.                                                              *)
(***************************************************************************)
OnceArgs == { <<I2>>, <<I10>> }
OnceBodies(args) == { Return(args[1]), Raise(ValueError1) }

NextOnce == \E args \in OnceArgs : \E body \in OnceBodies(args) : OnceCall(args, body)

InitDecorated == InitNoFn /\ Decorated

SpecOnce == InitDecorated /\ [][NextOnce]_vars

(***************************************************************************)
(* Tests of the Once guard on a function and on the methods of Cli: calls  *)
(* of a decorated function that returns or raises, and constructions of    *)
(* Cli objects whose fork succeeds or fails.                               *)
(***************************************************************************)
CliObjects == 1..2
CliArgv == { <<Sab>> }
ForkBodies == { Return(NoneV), Raise(ForkError) }

NextGuard ==
    \/ \E args \in OnceArgs : \E body \in OnceBodies(args) : OnceCall(args, body)
    \/ \E id \in CliObjects : \E argv \in CliArgv : \E fork \in ForkBodies :
          CliConstruct(id, argv, fork)

SpecGuard == InitDecorated /\ [][NextGuard]_vars

(***************************************************************************)
(* Tests of Cached: calls of a wrapped function that returns a value, a    *)
(* different one each time it runs, or None, or raises.                    *)
(***************************************************************************)
CachedArgs == { <<>>, <<I2>> }
CachedBodies == { Return(I2), Return(I3), Return(NoneV), Raise(ValueError1) }

NextCached == \E args \in CachedArgs : \E body \in CachedBodies : CachedCall(args, body)

SpecCached == InitDecorated /\ [][NextCached]_vars

(***************************************************************************)
(* Tests of Middleman and Middleman_mf: with and without each hook, calls  *)
(* with positional and keyword arguments.                                  *)
(***************************************************************************)
Hooks == { NoneV, HookV }
MiddlemanArgs == { Raw(<<Sab>>, <<KV("arg2", I3)>>), Raw(<<>>, <<>>) }
MiddlemanReturns == { I2, NoneV }

NextMiddleman ==
    \/ \E inp \in MiddlemanArgs : \E rv \in MiddlemanReturns : MiddlemanCall(inp, rv)
    \/ \E inp \in MiddlemanArgs : Middleman_mfCall(ObjectV(1), inp, I2)

InitMiddleman ==
    /\ Construct("Mock")
    /\ ~arg_map.known
    /\ Decorated
    /\ TestSuite__init__
    /\ strict = StrictExpectation(NoneV)
    /\ \E pre \in Hooks : \E post \in Hooks : Middleman__init__(pre, post)

SpecMiddleman == InitMiddleman /\ [][NextMiddleman]_vars

(***************************************************************************)
(* Tests of Middleman_cl: a class with the method f, and a class with the  *)
(* methods f and g; f returns 2 and g returns 3.                           *)
(***************************************************************************)
Classes == { <<"f">>, <<"f", "g">> }
ClassReturns == [f |-> I2, g |-> I3]

NextMiddlemanCl ==
    \E cl \in Classes : \E member \in {"f", "g"} : \E inp \in MiddlemanArgs :
        Middleman_clCall(cl, member, inp, ClassReturns)

SpecMiddlemanCl == InitMiddleman /\ [][NextMiddlemanCl]_vars

(***************************************************************************)
(* Tests of the test suite: cases that return None, Success() or Fail(..)  *)
(* or raise are registered and the suite is run.                           *)
(***************************************************************************)
CaseNames == { "tc1", "tc2" }
CaseFns == { Return(NoneV), Return(Success), Return(Fail(<<"some reason">>)),
             Raise(RuntimeErrorOf(<<"some other reason">>)) }

NextSuite ==
    \/ \E name \in CaseNames : \E fn \in CaseFns : Register(name, fn)
    \/ RunTests

SpecSuite == InitNoFn /\ [][NextSuite]_vars

(***************************************************************************)
(* Tests of forwarding to the rules' nested Expectations: rules that one   *)
(* or both of the invocations match are declared, before and after         *)
(* invocations, and given a value to return or a failure to raise.         *)
(***************************************************************************)
ForwardCalls == { Raw(<<I2>>, <<>>), Raw(<<I3>>, <<>>) }
ForwardRules == { Raw(<<I2>>, <<>>), Raw(<<OfInt>>, <<>>) }

NextForward ==
    \/ \E inp \in ForwardCalls : Call(inp)
    \/ \E inp \in ForwardRules : On(inp)
    \/ \E i \in 1..MaxRules : RuleReturns(i, I10)
    \/ \E i \in 1..MaxRules : RuleRaises(i, ValueError2)

SpecForward == InitNoFn /\ [][NextForward]_vars

(***************************************************************************)
(* Tests of the Expectations that on() returns: rules are declared, before *)
(* and after invocations that they answer, and each is given a value to    *)
(* return, a failure to raise or a check.                                  *)
(***************************************************************************)
NextFresh ==
    \/ Call(Raw(<<I2>>, <<>>))
    \/ On(Raw(<<I2>>, <<>>))
    \/ \E i \in 1..MaxRules : RuleReturns(i, I10)
    \/ \E i \in 1..MaxRules : RuleRaises(i, ValueError2)
    \/ \E i \in 1..MaxRules : RuleNever(i)

(* Mock(fn=f), f with the parameters a and b *)
InitFn == Init /\ arg_map.known

SpecFresh == InitFn /\ [][NextFresh]_vars

(***************************************************************************)
(* Tests of verification with rules: checks are declared on the            *)
(* Expectations that on() returned, invocations are answered by a rule or  *)
(* by the default response, and the object and each rule are verified.     *)
(***************************************************************************)
NextNestedVerify ==
    \/ Call(Raw(<<I2>>, <<>>))
    \/ On(Raw(<<I2>>, <<>>))
    \/ \E i \in 1..MaxRules : RuleNever(i)
    \/ \E i \in 1..MaxRules : RuleCalledWith(i, Raw(<<I2>>, <<>>))
    \/ Verify
    \/ \E i \in 1..MaxRules : RuleVerify(i)

SpecNestedVerify == InitNoFn /\ [][NextNestedVerify]_vars

(***************************************************************************)
(* Tests of verify() as an observer: a Mock with members, rules and a      *)
(* check that fails or raises, and members with a check that holds or      *)
(* fails; verify() at any point.                                           *)
(***************************************************************************)
NextReadOnly ==
    \/ Call(Raw(<<I2>>, <<>>))
    \/ On(Raw(<<I2>>, <<>>))
    \/ CalledWithOp(Raw(<<LikeA>>, <<>>))
    \/ Expects("f", NoneV)
    \/ MemberCall("f", Raw(<<I2>>, <<>>))
    \/ \E id \in 1..MaxMembers : MemberNever(id)
    \/ Verify

SpecReadOnly == InitNoFn /\ [][NextReadOnly]_vars

(***************************************************************************)
(* Tests that mix recording and configuration: invocations of a Mock and   *)
(* of its members, answered by a rule or by the default response, between  *)
(* every configuration method.                                             *)
(***************************************************************************)
NextDisjoint ==
    \/ Call(Raw(<<I2>>, <<>>))
    \/ On(Raw(<<I2>>, <<>>))
    \/ Once
    \/ Never
    \/ AtLeast(1)
    \/ CalledWithOp(Raw(<<I2>>, <<>>))
    \/ Returns(I9)
    \/ Raises(ValueError1)
    \/ Expects("f", NoneV)
    \/ MemberCall("f", Raw(<<I2>>, <<>>))

SpecDisjoint == InitNoFn /\ [][NextDisjoint]_vars

(***************************************************************************)
(* Tests of invocations that normalization may reject: keywords on a Mock  *)
(* without fn, and one to three positional arguments on a member whose fn  *)
(* is  def f(a): x = a; return x  (one parameter, one local variable;      *)
(* co_varnames lists both).                                                *)
(***************************************************************************)
Fax == FnV(<<"a", "x">>)

RejectCalls == { Raw(<<I2>>, <<>>), Raw(<<>>, <<KV("a", I2)>>) }

RejectMemberCalls ==
    { Raw(<<I2>>, <<>>), Raw(<<I2, I3>>, <<>>), Raw(<<I2, I3, I9>>, <<>>) }

NextReject ==
    \/ \E inp \in RejectCalls : Call(inp)
    \/ Never
    \/ Expects("f", Fax)
    \/ \E inp \in RejectMemberCalls : MemberCall("f", inp)
    \/ \E id \in 1..MaxMembers : MemberNever(id)
    \/ Verify

SpecReject == InitNoFn /\ [][NextReject]_vars

(***************************************************************************)
(* Tests of the strict mock of src/poc_db_mock.py: Mock() or Mock(f) for   *)
(* def f(a): pass, with count policies, rules, responses, invocations,     *)
(* verify and restore.                                                     *)
(***************************************************************************)
Fa == FnV(<<"a">>)

StrictCalls == { Raw(<<I2>>, <<>>), Raw(<<I3>>, <<>>) }

NextStrict ==
    \/ \E inp \in StrictCalls : StrictCall(inp)
    \/ StrictOn(Raw(<<I2>>, <<>>))
    \/ StrictOnce
    \/ StrictNever
    \/ StrictReturns(I9)
    \/ StrictRaises(ValueError1)
    \/ \E i \in 1..MaxRules : StrictRuleReturns(i, I10)
    \/ StrictVerify
    \/ StrictRestore

InitStrict ==
    /\ Construct("Mock")
    /\ ~arg_map.known
    /\ Decorated
    /\ Middleman__init__(NoneV, NoneV)
    /\ TestSuite__init__
    /\ strict \in { StrictExpectation(NoneV), StrictExpectation(Fa) }

SpecStrict == InitStrict /\ [][NextStrict]_vars

(***************************************************************************)
(* The whole program.                                                      *)
(***************************************************************************)
Next == NextDispatch \/ NextRecord \/ NextDefault \/ NextVerify \/ NextArgs
            \/ NextMembers \/ NextMemberDispatch \/ NextExpectation \/ NextKeys
            \/ NextPositional \/ NextOnce \/ NextCached
            \/ NextMiddleman \/ NextSuite \/ NextForward \/ NextFresh
            \/ NextNestedVerify \/ NextReadOnly \/ NextDisjoint \/ NextReject \/ NextStrict \/ NextMiddlemanCl \/ NextGuard

Spec == Init /\ [][Next]_vars

(***************************************************************************)
(* What the specification says of matching: the pattern and the call have  *)
(* the same keys (the same length), and every value of the call is equal   *)
(* to the pattern's or accepted by the matcher there; a matcher given a    *)
(* value of another type does not accept it.                               *)
(***************************************************************************)
Accepts(pv, cv) ==
    IF pv.tag = "OfType" THEN cv.tag = pv.ty
    ELSE IF pv.tag = "Like" THEN cv.tag = "str" /\ IsPrefix(pv.s, cv.s)
    ELSE pv = cv

ArgumentMatches(pattern, call) ==
    /\ pattern.form = call.form
    /\ IF pattern.form = "dict"
       THEN /\ Keys(pattern.items) = Keys(call.items)
            /\ \A k \in Keys(pattern.items) :
                   Accepts(Get(pattern.items, k), Get(call.items, k))
       ELSE /\ Len(pattern.items) = Len(call.items)
            /\ \A i \in DOMAIN pattern.items :
                   Accepts(pattern.items[i].v, call.items[i].v)

(* the last operation was an invocation whose arguments passed normalization *)
LastMerged == _normalize_args(arg_map, last.inp.args, last.inp.kwargs)
Invoked == last.op = "call" /\ LastMerged.err = ""

(* the rules the last invocation's arguments match *)
MatchingRules ==
    {i \in DOMAIN call_expectations :
        ArgumentMatches(call_expectations[i].matcher, LastMerged.val)}

Earliest(S) == CHOOSE i \in S : \A j \in S : i <= j

(* the response the most recent returns()/raises() of the root asks for *)
ConfiguredResponse ==
    IF lastset.op = "raises" THEN Raise(lastset.val) ELSE Return(lastset.val)

Passes == Return(TrueV)

(***************************************************************************)
(* C1: after any sequence of invocations whose arguments pass              *)
(* normalization, the call history holds exactly one record per            *)
(* invocation, in call order, each the normalized form of that             *)
(* invocation's arguments, whatever answered and whether it raised.        *)
(***************************************************************************)
C1_HistoryIsLog ==
    calls = [i \in 1..Len(log) |->
                _normalize_args(arg_map, log[i].args, log[i].kwargs).val]

(* two invocations are on record, and the second was answered by a rule
   whose response raised the configured failure *)
C1_Witness ==
    /\ last.op = "call"
    /\ last.rule = 1
    /\ last.out = Raise(ValueError2)
    /\ Len(calls) = 2
    /\ Len(log) = 2

(***************************************************************************)
(* C2: when the arguments of an invocation match several rules, the rule   *)
(* declared earliest answers: its nested Expectation is the one invoked    *)
(* and its response is the invocation's outcome.                           *)
(***************************************************************************)
C2_FirstMatchWins ==
    (Invoked /\ Cardinality(MatchingRules) >= 2) =>
        /\ last.rule = Earliest(MatchingRules)
        /\ last.out = CallReturns(call_expectations[Earliest(MatchingRules)].exp.returns)

OnlyAtLeast == Len(checks) = 1 /\ checks[1].kind = "CalledAtLeast"

C4_AtLeastNow ==
    (last.op = "verify" /\ OnlyAtLeast) =>
        (last.out = Passes <=> Len(log) >= checks[1].n_times)

C4_AtLeastStays ==
    (OnlyAtLeast /\ verify(checks, calls, 1) = Passes /\ last'.op = "call") =>
        verify(checks', calls', 1) = Passes

C4_AtLeast == []C4_AtLeastNow /\ [][C4_AtLeastStays]_vars

(* verify() succeeded for at_least(2) after the second invocation *)
C4_Witness ==
    /\ last.op = "verify"
    /\ checks = <<CalledAtLeast(2)>>
    /\ Len(log) = 2
    /\ last.out = Passes

(***************************************************************************)
(* C5: verify() with a called_with check as the only check succeeds iff    *)
(* at least one recorded call matches the pattern.                         *)
(***************************************************************************)
C5_CalledWith ==
    (last.op = "verify" /\ Len(checks) = 1 /\ checks[1].kind = "CalledWith") =>
        (last.out = Passes <=>
            \E i \in DOMAIN calls : ArgumentMatches(checks[1].args, calls[i]))

(***************************************************************************)
(* C6: when the arguments of an invocation match no rule, no rule's        *)
(* nested Expectation is invoked and the outcome is the root's default     *)
(* response: the failure of raises(), the value of returns(), whichever    *)
(* was called last, and None when neither was.                             *)
(***************************************************************************)
C6_DefaultResponse ==
    (Invoked /\ MatchingRules = {}) =>
        /\ last.rule = 0
        /\ last.out = ConfiguredResponse

(***************************************************************************)
(* C7: after any sequence of returns() and raises() on the root, every     *)
(* invocation that takes the default path answers as the most recent of    *)
(* them asks: it returns that value, or raises that failure.               *)
(***************************************************************************)
C7_LastWriteWins ==
    (last.op = "call" /\ last.rule = 0 /\ lastset.op # "none") =>
        last.out = ConfiguredResponse

(* the second invocation took the default path, past a rule, and returned
   the value of the latest returns() *)
C7_Witness ==
    /\ last.op = "call"
    /\ last.rule = 0
    /\ Len(log) = 2
    /\ call_expectations # <<>>
    /\ lastset = [op |-> "returns", val |-> I10]
    /\ last.out = Return(I10)

(***************************************************************************)
(* The ways of passing one assignment of values to parameter names: the    *)
(* first k declared parameters by position, the others by keyword.         *)
(***************************************************************************)
Split(items, names, k) ==
    LET rest == SelectSeq(SubSeq(names, k + 1, Len(names)),
                          LAMBDA nm : nm \in Keys(items))
    IN Raw([i \in 1..k |-> Get(items, names[i])],
           [j \in 1..Len(rest) |-> KV(rest[j], Get(items, rest[j]))])

Splits(items, names) ==
    {Split(items, names, k) :
        k \in {n \in 0..Len(names) : \A i \in 1..n : names[i] \in Keys(items)}}

(* a parameter is passed by position and by keyword in the same call *)
Collisions(inp) ==
    {i \in 1..Len(inp.args) :
        i <= Len(arg_map.names) /\ arg_map.names[i] \in Keys(inp.kwargs)}

(***************************************************************************)
(* C8: on a signature-bound Expectation, every way of splitting the        *)
(* values of an invocation between positional and keyword form normalizes  *)
(* to the same mapping and dispatches to the same rule.                    *)
(***************************************************************************)
C8_SplitsAgree ==
    (Invoked /\ arg_map.known /\ Collisions(last.inp) = {}) =>
        \A inp \in Splits(LastMerged.val.items, arg_map.names) :
            LET n == _normalize_args(arg_map, inp.args, inp.kwargs)
            IN /\ n.err = ""
               /\ SameDict(n.val.items, calls[Len(calls)].items)
               /\ FirstRule(n.val, call_expectations, 1) = last.rule

(***************************************************************************)
(* C9: on an Expectation bound to f(a, b), with called_with(a=2, b=3) as   *)
(* the only check, after a single invocation E(2, 3), E(2, b=3) or         *)
(* E(a=2, b=3) the recorded mapping is {a: 2, b: 3} and verify()           *)
(* succeeds; after a single E(3) the recorded mapping is {a: 3} and        *)
(* verify() raises AssertionError.                                         *)
(***************************************************************************)
E3 == Raw(<<I3>>, <<>>)
E23 == Raw(<<I2, I3>>, <<>>)
E2b3 == Raw(<<I2>>, <<KV("b", I3)>>)
Ea2b3 == Raw(<<>>, <<KV("a", I2), KV("b", I3)>>)

OneCallOf(inputs) ==
    /\ arg_map.known
    /\ Len(log) = 1
    /\ Len(calls) = 1
    /\ log[1] \in inputs

Verified23 == last.op = "verify" /\ checks = <<CalledWith(DictOf(Ea2b3.kwargs))>>

C9_Amended ==
    /\ OneCallOf({E23, E2b3, Ea2b3}) =>
           /\ SameDict(calls[1].items, Ea2b3.kwargs)
           /\ Verified23 => last.out = Passes
    /\ OneCallOf({E3}) =>
           /\ SameDict(calls[1].items, <<KV("a", I3)>>)
           /\ Verified23 => last.out = Raise(AssertionError)

(* C9 as the specification states it: E(3) too is recorded as {a: 2, b: 3}
   and satisfies called_with(a=2, b=3) *)
C9_Original ==
    OneCallOf({E3, E23, E2b3, Ea2b3}) =>
        /\ SameDict(calls[1].items, Ea2b3.kwargs)
        /\ Verified23 => last.out = Passes

(* verify() succeeded after the single invocation E(2, b=3) *)
C9_Witness ==
    /\ OneCallOf({E2b3})
    /\ Verified23
    /\ last.out = Passes

(***************************************************************************)
(* C10: when a parameter is passed both by position and by keyword to an   *)
(* invocation, to on() or to called_with() of a signature-bound            *)
(* Expectation, normalization does not fail and the positional value is    *)
(* the one in the normalized mapping.                                      *)
(***************************************************************************)
Normalizing == last.op \in {"call", "on", "called_with"}

(* what the last operation stored: a call record, a rule's matcher or a
   check's pattern *)
LastStored ==
    IF last.op = "call" THEN calls[Len(calls)]
    ELSE IF last.op = "on" THEN call_expectations[Len(call_expectations)].matcher
    ELSE checks[Len(checks)].args

NormalizedOk ==
    /\ last.out \notin {Raise(AssertionError), Raise(ExcV("IndexError", 0))}
    /\ last.op = "call" => (log # <<>> /\ log[Len(log)] = last.inp)

Colliding ==
    /\ arg_map.known
    /\ Normalizing
    /\ Len(last.inp.args) <= Len(arg_map.names)
    /\ Collisions(last.inp) # {}

C10_PositionalWins ==
    Colliding =>
        /\ NormalizedOk
        /\ \A i \in Collisions(last.inp) :
               Get(LastStored.items, arg_map.names[i]) = last.inp.args[i]

(* C10 as the specification states it: the keyword value wins *)
C10_KeywordWins ==
    Colliding =>
        /\ NormalizedOk
        /\ \A i \in Collisions(last.inp) :
               Get(LastStored.items, arg_map.names[i])
                   = Get(last.inp.kwargs, arg_map.names[i])

(* the invocation E(3, a=2) was recorded with a = 3 *)
C10_Witness ==
    /\ arg_map.known
    /\ last.op = "call"
    /\ last.inp = Raw(<<I3>>, <<KV("a", I2)>>)
    /\ Get(calls[Len(calls)].items, "a") = I3

(***************************************************************************)
(* C11: on an object without a declared signature, an invocation, an on()  *)
(* or a called_with() that is given a keyword argument raises              *)
(* AssertionError and changes nothing: no call is recorded, no rule and no *)
(* check is appended, the default response and the signature stay, so      *)
(* every later operation starts from the state it would have started from  *)
(* without the failing one.                                                *)
(***************************************************************************)
KeywordOps == {"call", "on", "called_with"}

C11_KeywordRejected ==
    [][(/\ ~arg_map.known
        /\ last'.target = 0
        /\ last'.op \in KeywordOps
        /\ last'.inp.kwargs # <<>>)
       => (/\ last'.out = Raise(AssertionError)
           /\ UNCHANGED <<arg_map, calls, checks, call_expectations, _returns,
                          log, lastset, members>>)]_vars

(* an on() with a keyword was rejected after a call was recorded, a rule and
   a check were declared *)
C11_Witness ==
    /\ ~arg_map.known
    /\ last.op = "on"
    /\ last.inp.kwargs # <<>>
    /\ last.out = Raise(AssertionError)
    /\ Len(calls) = 1
    /\ Len(call_expectations) = 1
    /\ checks = <<>>

(***************************************************************************)
(* What the specification says of a check: an exact count holds when the   *)
(* history has that many records, a minimum when it has at least that      *)
(* many, a called_with pattern when some record matches it.                *)
(***************************************************************************)
Holds(check, cs) ==
    IF check.kind = "CalledExactly" THEN Len(cs) = check.n_times
    ELSE IF check.kind = "CalledAtLeast" THEN Len(cs) >= check.n_times
    ELSE \E i \in DOMAIN cs : ArgumentMatches(check.args, cs[i])

AllHold(chks, cs) == \A i \in DOMAIN chks : Holds(chks[i], cs)

(***************************************************************************)
(* C12: verify() on an object without members returns True iff every       *)
(* declared check holds for the current call history (so it returns True   *)
(* when no check is declared), and raises the verification failure of a    *)
(* check otherwise.                                                        *)
(***************************************************************************)
C12_VerifyIffChecksHold ==
    (last.op = "verify" /\ member_mocks = <<>>) =>
        /\ last.out = Passes <=> AllHold(checks, calls)
        /\ last.out # Passes => last.out.kind = "raise"

(***************************************************************************)
(* C13: Mock.verify(), on a Mock whose registered names all resolve to a   *)
(* member, returns True iff every check of every member and every check of *)
(* the Mock itself holds, and raises otherwise; in particular it raises    *)
(* after expects("fn").never() and one call of m.fn().                     *)
(***************************************************************************)
Registered == {i \in DOMAIN member_mocks : attrs[member_mocks[i]].tag = "Mock"}
Member(i) == heap[attrs[member_mocks[i]].n].e

C13_MockVerify ==
    (last.op = "verify" /\ cls = "Mock" /\ Registered = DOMAIN member_mocks) =>
        /\ last.out = Passes <=>
               /\ \A i \in Registered : AllHold(Member(i).checks, Member(i).calls)
               /\ AllHold(checks, calls)
        /\ last.out # Passes => last.out.kind = "raise"

(***************************************************************************)
(* C14: expects(name, fn) returns a new member that takes fn's parameter   *)
(* names (positional arguments only when fn is None) and is what the name  *)
(* resolves to on the Mock; an invocation m.name(...) is dispatched by the *)
(* member that the latest expects(name) returned: its arguments are        *)
(* normalized with that member's signature and recorded in its history,    *)
(* and the answer is that of its earliest matching rule, or its default    *)
(* response when none matches.                                             *)
(***************************************************************************)
BoundTo(fn) == IF fn = NoneV THEN NoneMap ELSE NamesMap(fn.s)

LatestRegistered(name) ==
    CHOOSE i \in DOMAIN member_mocks :
        /\ member_mocks[i] = name
        /\ \A j \in DOMAIN member_mocks : member_mocks[j] = name => j <= i

C14_ExpectsReturnsMember ==
    last.op = "expects" =>
        /\ last.out = Return(MockV(last.target))
        /\ attrs[last.name] = MockV(last.target)
        /\ LatestRegistered(last.name) = last.target
        /\ heap[last.target].arg_map = BoundTo(last.inp.args[1])
        /\ heap[last.target].e = NewExpectation

C14_MemberDispatches ==
    (last.op = "call" /\ last.target > 0) =>
        LET id == LatestRegistered(last.name)
            mf == heap[id]
            merged_args == _normalize_args(mf.arg_map, last.inp.args, last.inp.kwargs)
            matching == {i \in DOMAIN mf.e.call_expectations :
                            ArgumentMatches(mf.e.call_expectations[i].matcher,
                                            merged_args.val)}
        IN /\ last.target = id
           /\ IF merged_args.err # ""
              THEN last.out = Raise(ExcV(merged_args.err, 0))
              ELSE /\ mf.e.calls # <<>>
                   /\ mf.e.calls[Len(mf.e.calls)] = merged_args.val
                   /\ last.out =
                          IF matching = {} THEN CallReturns(mf.e.returns)
                          ELSE CallReturns(
                                   mf.e.call_expectations[Earliest(matching)].exp.returns)

C14_MemberByName == C14_ExpectsReturnsMember /\ C14_MemberDispatches

(* m.f(a=2) was answered by the rule declared through the second member
   registered as f, a member with a signature and a default response *)
C14_Witness ==
    /\ last.op = "call"
    /\ last.name = "f"
    /\ last.target = 2
    /\ member_mocks = <<"f", "f">>
    /\ last.inp.kwargs # <<>>
    /\ last.rule = 1
    /\ heap[2].e.returns = ReturnsValue(I9)
    /\ last.out = Return(NoneV)

(***************************************************************************)
(* C15: restore() on a standalone Expectation returns that Expectation and *)
(* leaves it with an empty call history, no rules and no checks, its name  *)
(* ('' as constructed) and its fn as they were, and the signature that     *)
(* belongs to fn.                                                          *)
(***************************************************************************)
C15_RestoreResets ==
    (last.op = "restore" /\ cls = "Expectation") =>
        /\ last.out = Return(SelfV)
        /\ calls = <<>>
        /\ call_expectations = <<>>
        /\ checks = <<>>
        /\ attrs["method_name"] = StrV(<<>>)
        /\ attrs["fn"].tag \in {"NoneType", "function"}
        /\ arg_map = BoundTo(attrs["fn"])

(***************************************************************************)
(* C16: restore() on a Mock, after any configuration and invocations,      *)
(* succeeds and leaves the Mock as a freshly constructed Mock with the     *)
(* same signature is, with the same fields, attributes and (empty) member  *)
(* registry, so that the same configuration applied again gives the same   *)
(* dispatch and verify behaviour, starting from an empty call history.     *)
(***************************************************************************)
FreshAttrs(am) ==
    [a \in AttrNames |->
        IF a = "fn" THEN (IF am.known THEN FnV(am.names) ELSE NoneV)
        ELSE IF a = "method_name" THEN StrV(<<>>)
        ELSE Absent]

C16_RoundTrip ==
    (last.op = "restore" /\ cls = "Mock") =>
        /\ last.out = Return(SelfV)
        /\ <<Self, attrs, member_mocks>> = <<NewExpectation, FreshAttrs(arg_map), <<>> >>

(***************************************************************************)
(* C17: Mock.restore() succeeds whatever names were registered and         *)
(* whatever was invoked; afterwards no name that was registered resolves   *)
(* to a member, the member registry is empty, the Mock's own history,      *)
(* rules, checks and default response are those of construction, and its   *)
(* name and signature are the ones it had.                                 *)
(***************************************************************************)
C17_Restoring ==
    (last'.op = "restore" /\ cls = "Mock") =>
        /\ last'.out = Return(SelfV)
        /\ member_mocks' = <<>>
        /\ \A i \in DOMAIN member_mocks : attrs'[member_mocks[i]].tag # "Mock"
        /\ calls' = <<>>
        /\ call_expectations' = <<>>
        /\ checks' = <<>>
        /\ _returns' = ReturnsNone
        /\ attrs'["method_name"] = attrs["method_name"]
        /\ arg_map' = arg_map

C17_MockRestore == [][C17_Restoring]_vars

(***************************************************************************)
(* C18: no member name occurs twice in the Mock's member registry, and a   *)
(* registered name resolves to the member that the latest expects() of     *)
(* that name created.                                                      *)
(***************************************************************************)
C18_NamesUnique ==
    \A i, j \in DOMAIN member_mocks :
        /\ member_mocks[i] = member_mocks[j] => i = j
        /\ attrs[member_mocks[i]].tag = "Mock" =>
               attrs[member_mocks[i]] = MockV(LatestRegistered(member_mocks[i]))

(***************************************************************************)
(* C19: each of returns, raises, once, never, at_least, called_with and    *)
(* restore, called on an Expectation, returns that Expectation.            *)
(***************************************************************************)
ChainedOps == {"returns", "raises", "once", "never", "at_least", "called_with", "restore"}

C19_ReturnsSelf ==
    (last.op \in ChainedOps /\ last.target = 0) => last.out = Return(SelfV)

(***************************************************************************)
(* C20: no invocation and no verify() raises TypeError: a Like pattern of  *)
(* a rule or of a called_with check that meets an argument that is not     *)
(* text does not match it, and the walk over the rules (the records) goes  *)
(* on.                                                                     *)
(***************************************************************************)
C20_MatchingTotal ==
    last.op \in {"call", "verify"} => last.out # Raise(TypeError)

(***************************************************************************)
(* C21: an invocation that reaches a response configured with raises(e)    *)
(* raises e itself: on the default path the failure that the latest        *)
(* raises() of the root was given, on a rule the failure that the rule's   *)
(* nested Expectation holds, with its class and identity.                  *)
(***************************************************************************)
C21_RaisesAsConfigured ==
    (last.op = "call" /\ last.target = 0) =>
        /\ (last.rule = 0 /\ lastset.op = "raises") => last.out = Raise(lastset.val)
        /\ (last.rule > 0 /\ call_expectations[last.rule].exp.returns.kind = "raise") =>
               last.out = Raise(call_expectations[last.rule].exp.returns.val)

(* the root raises ValueError1 by default, the rule that answered the
   second invocation raised its own ValueError2 *)
C21_Witness ==
    /\ last.op = "call"
    /\ last.rule = 1
    /\ Len(log) = 2
    /\ lastset = [op |-> "raises", val |-> ValueError1]
    /\ last.out = Raise(ValueError2)

(***************************************************************************)
(* C22: an invocation never evaluates the declared checks: whatever checks *)
(* are declared (never(), once() already used up, ...), an invocation      *)
(* whose arguments pass normalization is recorded, leaves the checks as    *)
(* they are and, when no rule is declared, answers with the default        *)
(* response; the violation shows at verify() only.                         *)
(***************************************************************************)
C22_Invoking ==
    (last'.op = "call" /\ last'.target = 0) =>
        LET merged_args == _normalize_args(arg_map, last'.inp.args, last'.inp.kwargs)
        IN /\ checks' = checks
           /\ merged_args.err = "" =>
                  /\ calls' = Append(calls, merged_args.val)
                  /\ call_expectations = <<>> => last'.out = CallReturns(_returns)

C22_ChecksOnlyAtVerify == [][C22_Invoking]_vars

(* once() was declared, and the second invocation was recorded and returned
   None *)
C22_Witness ==
    /\ last.op = "call"
    /\ checks = <<CalledExactly(1)>>
    /\ Len(calls) = 2
    /\ last.out = Return(NoneV)

(***************************************************************************)
(* C23: on an object with a signature, a call is recorded with exactly the *)
(* parameters it passed (none is filled in), the rule that answers it has  *)
(* exactly the call's key set and accepts every value, and a called_with   *)
(* check passes only when a record has exactly the pattern's key set and   *)
(* values.  So the rule on(2) answers E(2) and E(a=2), and does not answer *)
(* E(2, None) or E(a=2, b=None).                                           *)
(***************************************************************************)
PassedNames(inp) ==
    {arg_map.names[i] : i \in DOMAIN inp.args} \cup Keys(inp.kwargs)

OnA2 == DictOf(<<KV("a", I2)>>)

C23_ExactKeys ==
    /\ (Invoked /\ arg_map.known) =>
          /\ Keys(calls[Len(calls)].items) = PassedNames(last.inp)
          /\ last.rule > 0 =>
                 LET pattern == call_expectations[last.rule].matcher.items
                 IN /\ Keys(pattern) = PassedNames(last.inp)
                    /\ \A k \in Keys(pattern) :
                           Accepts(Get(pattern, k), Get(LastMerged.val.items, k))
          /\ (call_expectations # <<>> /\ call_expectations[1].matcher = OnA2) =>
                 (last.rule = 1 <=> PassedNames(last.inp) = {"a"})
    /\ (last.op = "verify" /\ arg_map.known /\ last.out = Passes) =>
          \A c \in DOMAIN checks :
              checks[c].kind = "CalledWith" =>
                  \E i \in DOMAIN calls :
                      /\ Keys(calls[i].items) = Keys(checks[c].args.items)
                      /\ ArgumentMatches(checks[c].args, calls[i])

(* the rule on(2) is declared; E(a=2, b=None) was not answered by it but by
   the default response, and is recorded with both keys *)
C23_Witness ==
    /\ arg_map.known
    /\ last.op = "call"
    /\ last.inp = Raw(<<>>, <<KV("a", I2), KV("b", NoneV)>>)
    /\ Len(call_expectations) = 1
    /\ call_expectations[1].matcher = OnA2
    /\ last.rule = 0
    /\ Keys(calls[Len(calls)].items) = {"a", "b"}

(***************************************************************************)
(* C24: on an object without a signature, the rule that answers an         *)
(* invocation is the earliest rule with as many values as the invocation   *)
(* has positional arguments, each value equal to the argument at its       *)
(* position or a matcher that accepts it; when there is no such rule (the  *)
(* invocation has fewer or more arguments, or a value differs) the default *)
(* response answers.                                                       *)
(***************************************************************************)
PositionalMatches ==
    {i \in DOMAIN call_expectations :
        LET pattern == call_expectations[i].matcher.items
        IN /\ Len(pattern) = Len(last.inp.args)
           /\ \A j \in DOMAIN pattern : Accepts(pattern[j].v, last.inp.args[j])}

C24_PositionalRules ==
    (Invoked /\ ~arg_map.known) =>
        IF PositionalMatches = {}
        THEN last.rule = 0 /\ last.out = CallReturns(_returns)
        ELSE /\ last.rule = Earliest(PositionalMatches)
             /\ last.out = CallReturns(call_expectations[last.rule].exp.returns)

(***************************************************************************)
(* Once and Cached (src/once.py).                                          *)
(***************************************************************************)
CallsOf(op) == SelectSeq(outs, LAMBDA c : c.op = op)
BodiesRan(fn) == SelectSeq(ran, LAMBDA e : e.fn = fn)

(* C25: a function wrapped by Once runs at most once over any sequence of
   calls: the first call runs it with the call's arguments and has its
   result, every later call raises RuntimeError and does not run it *)
C25_OnceAtMostOnce ==
    LET c == CallsOf("Once")
    IN /\ Len(BodiesRan("fn")) <= 1
       /\ c # <<>> => /\ BodiesRan("fn") = <<Ran("fn", c[1].args)>>
                      /\ c[1].out = c[1].body
       /\ \A i \in 2..Len(c) : c[i].out = Raise(RuntimeError)

(* the first call returned and two more were made *)
C25_Witness ==
    LET c == CallsOf("Once")
    IN /\ Len(c) >= 3
       /\ c[1].out = Return(I2)
       /\ c[3].body = Return(I10)

(* C26: a function wrapped by Cached runs at most once over any sequence of
   calls, whatever it returns: the first call runs it and stores the result,
   every later call returns the stored result and does not run it *)
C26_CachedOnce ==
    LET c == CallsOf("Cached")
    IN /\ Len(BodiesRan("fn")) <= 1
       /\ c # <<>> => /\ BodiesRan("fn") = <<Ran("fn", c[1].args)>>
                      /\ c[1].out = c[1].body
       /\ \A i \in 2..Len(c) : c[i].out = c[1].out

(***************************************************************************)
(* Middleman and Middleman_mf (src/middleman.py).                          *)
(***************************************************************************)
(* what a call through the wrapper is to run, in order: pre_hook with the
   call's arguments, the function, post_hook with the return value followed
   by the call's arguments; the instance of a method comes first in each *)
HookedRun(c) ==
    LET first == IF c.op = "Middleman_mf" THEN <<c.self>> ELSE <<>>
        all == Raw(first \o c.args.args, c.args.kwargs)
    IN (IF pre_hook = NoneV THEN <<>> ELSE <<Ran("pre_hook", all)>>)
       \o <<Ran("fn", all)>>
       \o (IF post_hook = NoneV THEN <<>>
           ELSE <<Ran("post_hook", Raw(first \o <<c.body.val>> \o c.args.args, c.args.kwargs))>>)

(* C27: a call of a function wrapped by Middleman, or of a method wrapped by
   Middleman_mf, runs pre_hook, the function and post_hook, in this order
   and each once, with these arguments, skips an absent hook, and returns
   what the function returned *)
C27_Hooked ==
    (Len(outs') = Len(outs) + 1 /\ outs'[Len(outs')].op \in {"Middleman", "Middleman_mf"}) =>
        LET c == outs'[Len(outs')]
        IN /\ ran' = ran \o HookedRun(c)
           /\ c.out = c.body

C27_HooksInOrder == [][C27_Hooked]_vars

(* with both hooks, a function and a method were called with a keyword
   argument; with one hook only, a function was called *)
C27_Witness ==
    /\ Len(outs) >= 2
    /\ outs[1].op = "Middleman" /\ outs[1].args.kwargs # <<>>
    /\ outs[2].op = "Middleman_mf" /\ outs[2].args.kwargs # <<>>
    /\ pre_hook # NoneV /\ post_hook # NoneV
    /\ Len(ran) = 6

(***************************************************************************)
(* TestSuite.run_tests (src/testing.py).                                   *)
(***************************************************************************)
(* a case passes if it returned None or a result that passed *)
CasePasses(tc) ==
    /\ tc.case_fn.kind = "return"
    /\ tc.case_fn.val = NoneV \/ (tc.case_fn.val.tag = "TestResult" /\ tc.case_fn.val.n = 1)

NotPassing(cases) == SelectSeq(cases, LAMBDA tc : ~CasePasses(tc))

(* C28: run_tests runs every registered case once, in registration order,
   also after a case that raised; total is the number of registered cases,
   passed the number of cases that returned None or a passing result, fails
   has one entry for each other case, in run order, and passed plus the
   number of fails is total *)
C28_Ran ==
    (Len(outs') = Len(outs) + 1 /\ outs'[Len(outs')].op = "run_tests") =>
        LET result == outs'[Len(outs')].out.val
            failing == NotPassing(test_cases)
        IN /\ outs'[Len(outs')].out.kind = "return"
           /\ ran' = ran \o [i \in 1..Len(test_cases) |-> Ran(test_cases[i].case_name, <<>>)]
           /\ result.total = Len(test_cases)
           /\ result.passed = Cardinality({i \in 1..Len(test_cases) : CasePasses(test_cases[i])})
           /\ Len(result.fails) = Len(failing)
           /\ \A j \in 1..Len(failing) : result.fails[j][3] = failing[j].case_name
           /\ result.passed + Len(result.fails) = result.total

C28_RunTests == [][C28_Ran]_vars

(* a suite of a case that raises, one that passes and one that fails was
   run: the three ran, one passed and two are in fails, in this order *)
C28_Witness ==
    /\ Len(test_cases) = 3
    /\ test_cases[1].case_fn.kind = "raise" /\ test_cases[1].case_name = "tc2"
    /\ test_cases[2].case_fn = Return(Success)
    /\ test_cases[3].case_fn.kind = "return" /\ test_cases[3].case_fn.val.tag = "TestResult"
    /\ test_cases[3].case_fn.val.n = 0 /\ test_cases[3].case_name = "tc1"
    /\ Len(outs) = 1
    /\ Len(ran) = 3
    /\ outs[1].out.val.passed = 1
    /\ Len(outs[1].out.val.fails) = 2

(***************************************************************************)
(* The nested Expectations of the rules.                                   *)
(***************************************************************************)
RECURSIVE NestedTotal(_, _)
NestedTotal(rules, i) ==
    IF i > Len(rules) THEN 0 ELSE Len(rules[i].exp.calls) + NestedTotal(rules, i + 1)

(* the step is an invocation of the root that was recorded *)
Recording == Len(calls') = Len(calls) + 1

(* C29: an invocation that a rule wins has the outcome of the rule's nested
   Expectation, a returned value or a raised failure, and is recorded on the
   root and on that nested Expectation and on no other; an invocation that
   no rule wins is recorded on no nested Expectation; so the nested
   histories together are never longer than the root's *)
C29_Forwarding ==
    /\ Recording =>
         LET w == last'.rule
             merged_args == _normalize_args(arg_map, last'.inp.args, last'.inp.kwargs).val
         IN /\ calls' = Append(calls, merged_args)
            /\ Len(call_expectations') = Len(call_expectations)
            /\ \A j \in DOMAIN call_expectations :
                 IF j = w
                 THEN /\ call_expectations'[j] =
                           [call_expectations[j] EXCEPT !.exp.calls = Append(@, merged_args)]
                      /\ last'.out = CallReturns(call_expectations[j].exp.returns)
                 ELSE call_expectations'[j] = call_expectations[j]
    /\ NestedTotal(call_expectations', 1) <= Len(calls')

C29_NestedRecords == [][C29_Forwarding]_vars

(* of two invocations one was answered by the default response and one by
   the second rule, which raised; the second rule's nested Expectation holds
   that one invocation and the first rule's none *)
C29_Witness ==
    /\ Len(calls) = 2
    /\ Len(call_expectations) >= 2
    /\ Len(call_expectations[1].exp.calls) = 0
    /\ call_expectations[2].exp.calls = <<calls[2]>>
    /\ last.rule = 2
    /\ last.out = Raise(ValueError2)

(* C30: an on() that is accepted appends one rule at the end of the rule
   list and returns its nested Expectation, which is fresh (no history, no
   rules, no checks, the default response None) and has the root's
   signature; returns(), raises() and never() on a nested Expectation change
   neither the root's default response nor any other rule *)
C30_Step ==
    /\ (last'.op = "on" /\ last'.target = 0 /\ last'.out.kind = "return"
        /\ Len(call_expectations') # Len(call_expectations)) =>
         /\ Len(call_expectations') = Len(call_expectations) + 1
         /\ SubSeq(call_expectations', 1, Len(call_expectations)) = call_expectations
         /\ last'.out = Return(NestedV(Len(call_expectations')))
         /\ call_expectations'[Len(call_expectations')].exp = NewExpectation
         /\ call_expectations'[Len(call_expectations')].matcher =
                _normalize_args(arg_map, last'.inp.args, last'.inp.kwargs).val
         /\ Expectation__init__(attrs["fn"]).arg_map = arg_map
         /\ UNCHANGED <<arg_map, calls, checks, _returns>>
    /\ (last'.op \in {"rule.returns", "rule.raises", "rule.never"}
        /\ call_expectations' # call_expectations) =>
         /\ UNCHANGED <<arg_map, calls, checks, _returns>>
         /\ Len(call_expectations') = Len(call_expectations)
         /\ \A j \in DOMAIN call_expectations :
              IF j = last'.out.val.n
              THEN /\ call_expectations'[j].matcher = call_expectations[j].matcher
                   /\ call_expectations'[j].exp.calls = call_expectations[j].exp.calls
              ELSE call_expectations'[j] = call_expectations[j]

C30_FreshNested == [][C30_Step]_vars

(* a third rule was declared after an invocation was recorded that the first
   rule answered, and the first rule given a response and a check; then the
   second rule was made to raise *)
C30_Witness ==
    /\ Len(call_expectations) = 3
    /\ calls # <<>>
    /\ call_expectations[1].exp.calls # <<>>
    /\ call_expectations[1].exp.returns = ReturnsValue(I10)
    /\ call_expectations[1].exp.checks # <<>>
    /\ call_expectations[2].exp.returns = RaisesEx(ValueError2)
    /\ call_expectations[3].exp = NewExpectation
    /\ last.op = "rule.raises"

(***************************************************************************)
(* Verification and the rules' nested Expectations.                        *)
(***************************************************************************)
Nested(i) == call_expectations[i].exp

(* C31: verify() on the object evaluates the object's own checks only: it
   returns True iff those hold for the object's history, whatever checks
   the nested Expectations of its rules carry, and a check declared on the
   Expectation that on() returned decides that Expectation's verify() *)
C31_NestedNotVerified ==
    /\ (last.op = "verify" /\ last.target = 0 /\ member_mocks = <<>>) =>
           last.out = IF AllHold(checks, calls) THEN Passes ELSE Raise(AssertionError)
    /\ last.op = "rule.verify" =>
           last.out = IF AllHold(Nested(last.rule).checks, Nested(last.rule).calls)
                      THEN Passes ELSE Raise(AssertionError)

(* verify() on the object returned True while the never() declared on the
   first rule's Expectation is violated by the invocation that rule won *)
C31_Witness ==
    /\ last.op = "verify"
    /\ last.out = Passes
    /\ call_expectations # <<>>
    /\ Nested(1).checks = <<CalledExactly(0)>>
    /\ Nested(1).calls # <<>>
    /\ Len(calls) > Len(Nested(1).calls)

(***************************************************************************)
(* C32: verify() is read-only: whether it returns True or raises, the call *)
(* history, the rules, the checks, the default response and the members    *)
(* are as before, and verify() called again straight away has the same     *)
(* outcome.                                                                *)
(***************************************************************************)
VerifyAgain == IF cls = "Mock" THEN Mock_verify(1) ELSE verify(checks, calls, 1)

C32_Frame ==
    (last'.op = "verify" /\ last'.target = 0) =>
        UNCHANGED <<arg_map, calls, call_expectations, checks, _returns, members>>

C32_Repeatable == (last.op = "verify" /\ last.target = 0) => last.out = VerifyAgain

C32_VerifyReadOnly == []C32_Repeatable /\ [][C32_Frame]_vars

(* verify() raised for a member's check while the Mock has a rule, a check
   and a recorded call *)
C32_Witness ==
    /\ last.op = "verify"
    /\ last.out = Raise(AssertionError)
    /\ heap # <<>> /\ heap[1].e.checks # <<>> /\ heap[1].e.calls # <<>>
    /\ calls # <<>> /\ checks # <<>> /\ call_expectations # <<>>

(***************************************************************************)
(* C33: recording and configuration are disjoint.  An invocation of the    *)
(* object changes only call histories: its own grows by at most one        *)
(* record, the nested history of the rule that answered grows by at most   *)
(* one record, and the rules (patterns, order, responses, checks), the     *)
(* checks, the default response and the members stay as they were.  once,  *)
(* never, at_least, called_with, on, returns and raises, on the object or  *)
(* on a member, change no call history.  An invocation of a member leaves  *)
(* the object's history and every other member unchanged.                  *)
(***************************************************************************)
Grows(old, new) ==
    \/ new = old
    \/ Len(new) = Len(old) + 1 /\ SubSeq(new, 1, Len(old)) = old

(* the rules without their nested call histories *)
RuleConfig(rules) == [i \in DOMAIN rules |-> [rules[i] EXCEPT !.exp.calls = <<>>]]

(* a member without its call histories *)
ChildConfig(mf) ==
    [mf EXCEPT !.e.calls = <<>>, !.e.call_expectations = RuleConfig(@)]

ConfigurationOps ==
    { "once", "never", "at_least", "called_with", "on", "returns", "raises" }

C33_Invocation ==
    (last'.op = "call" /\ last'.target = 0) =>
        /\ UNCHANGED <<arg_map, checks, _returns, members>>
        /\ RuleConfig(call_expectations') = RuleConfig(call_expectations)
        /\ Grows(calls, calls')
        /\ \A i \in DOMAIN call_expectations :
              \/ Nested(i)' = Nested(i)
              \/ /\ i = last'.rule
                 /\ Grows(Nested(i).calls, Nested(i).calls')

C33_MemberInvocation ==
    (last'.op = "call" /\ last'.target # 0) =>
        /\ UNCHANGED <<arg_map, calls, call_expectations, checks, _returns>>
        /\ UNCHANGED <<cls, attrs, member_mocks>>
        /\ DOMAIN heap' = DOMAIN heap
        /\ \A id \in DOMAIN heap :
              /\ id # last'.target => heap'[id] = heap[id]
              /\ ChildConfig(heap'[id]) = ChildConfig(heap[id])
              /\ Grows(heap[id].e.calls, heap'[id].e.calls)

C33_Configuration ==
    (last'.op \in ConfigurationOps) =>
        /\ calls' = calls
        /\ \A i \in DOMAIN call_expectations : Nested(i).calls' = Nested(i).calls
        /\ \A id \in DOMAIN heap :
              /\ heap'[id].e.calls = heap[id].e.calls
              /\ \A i \in DOMAIN heap[id].e.call_expectations :
                    heap'[id].e.call_expectations[i].exp.calls
                        = heap[id].e.call_expectations[i].exp.calls

C33_Step == C33_Invocation /\ C33_MemberInvocation /\ C33_Configuration

C33_Disjoint == [][C33_Step]_vars

(* an invocation was answered by a rule whose nested history holds it, on
   an object with a check, a configured default response, and a member with
   a recorded call *)
C33_Witness ==
    /\ last.op = "call" /\ last.target = 0
    /\ last.rule \in DOMAIN call_expectations
    /\ Nested(last.rule).calls # <<>>
    /\ checks # <<>>
    /\ _returns # NewExpectation.returns
    /\ \E id \in DOMAIN heap : heap[id].e.calls # <<>>

(***************************************************************************)
(* C34: checks accumulate and are conjunctive.  Every accepted once(),     *)
(* never(), at_least() or called_with() appends one check and keeps the    *)
(* earlier ones, and verify() on an object without members returns True    *)
(* iff all the accumulated checks hold for the call history; with both an  *)
(* exactly-once and a never check declared it does not return True.        *)
(***************************************************************************)
CheckOps == { "once", "never", "at_least", "called_with" }

C34_Appends ==
    (last'.op \in CheckOps /\ last'.target = 0 /\ last'.out.kind = "return") =>
        /\ Len(checks') = Len(checks) + 1
        /\ SubSeq(checks', 1, Len(checks)) = checks

C34_Conjunctive ==
    (last.op = "verify" /\ last.target = 0 /\ member_mocks = <<>>) =>
        /\ last.out = Passes <=> AllHold(checks, calls)
        /\ ( /\ \E i \in DOMAIN checks : checks[i] = CalledExactly(1)
             /\ \E i \in DOMAIN checks : checks[i] = CalledExactly(0) )
               => last.out = Raise(AssertionError)

C34_Accumulate == []C34_Conjunctive /\ [][C34_Appends]_vars

(***************************************************************************)
(* C35: an invocation whose normalization fails raises before recording.   *)
(* When an object without a signature is invoked with a keyword argument,  *)
(* or an object with a signature is invoked with more positional arguments *)
(* than the function declares parameters, the invocation raises and the    *)
(* call history, the rules, the checks, the default response and the       *)
(* members of the invoked object stay as they were, so a later verify()    *)
(* counts the calls recorded before.                                       *)
(***************************************************************************)
(* the declared parameter names of the function with these co_varnames:
   f(a) of these tests has the local variable x, the other functions have
   no local variable *)
Parameters(co_varnames) ==
    IF co_varnames = Fax.s THEN <<"a">> ELSE co_varnames

NormalizationFails(am, inp) ==
    \/ ~am.known /\ inp.kwargs # <<>>
    \/ am.known /\ Len(inp.args) > Len(Parameters(am.names))

C35_Root ==
    (last'.op = "call" /\ last'.target = 0 /\ NormalizationFails(arg_map, last'.inp)) =>
        /\ last'.out.kind = "raise"
        /\ UNCHANGED <<arg_map, calls, call_expectations, checks, _returns, members>>

C35_Member ==
    (/\ last'.op = "call" /\ last'.target \in DOMAIN heap
     /\ NormalizationFails(heap[last'.target].arg_map, last'.inp)) =>
        /\ last'.out.kind = "raise"
        /\ UNCHANGED <<arg_map, calls, call_expectations, checks, _returns, members>>

C35_RejectedBeforeRecording == [][C35_Root /\ C35_Member]_vars

(***************************************************************************)
(* C36: the strict mock enforces the count policies at call time.  Every   *)
(* invocation is counted.  An invocation of an object on which never() was *)
(* declared, and an invocation other than the first of an object on which  *)
(* once() was declared, raises AssertionError without producing a          *)
(* response: no rule's nested Expectation is invoked and nothing but the   *)
(* counter changes.  The rejected invocation is counted, so verify()       *)
(* raises AssertionError in every later state.                             *)
(***************************************************************************)
(* the invocation now made is one the policies reject *)
Rejects(e) == e.expects_never \/ (e.expects_once /\ e.n_calls >= 1)

(* an invocation of the object has been rejected *)
Rejected(e) ==
    \/ e.expects_never /\ e.n_calls > 0
    \/ e.expects_once /\ e.n_calls > 1

C36_Call ==
    (last'.op = "strict.call") =>
        /\ strict'.n_calls = strict.n_calls + 1
        /\ Rejects(strict) =>
              /\ last'.out = Raise(AssertionError)
              /\ last'.rule = -1
              /\ strict' = [strict EXCEPT !.n_calls = @ + 1]
              /\ Rejected(strict')

C36_Stays == Rejected(strict) => Rejected(strict')

C36_Verify == (last.op = "strict.verify" /\ Rejected(strict)) => last.out = Raise(AssertionError)

C36_Strict == []C36_Verify /\ [][C36_Call /\ C36_Stays]_vars

(* a second invocation of a once() mock with a rule and a configured failure
   was rejected with the policy's AssertionError, the first one having been
   answered by the rule; the nested Expectation was invoked once *)
C36_Witness ==
    /\ last.op = "strict.call"
    /\ last.out = Raise(AssertionError)
    /\ strict.expects_once /\ ~strict.expects_never
    /\ strict.n_calls = 2
    /\ strict.to_raise = ValueError1
    /\ strict.call_expectations # <<>>
    /\ strict.call_expectations[1].exp.n_calls = 1

(***************************************************************************)
(* C37: a call of member m on an instance of a class wrapped by            *)
(* Middleman_cl runs pre_hook with the name m (if there is a pre_hook),    *)
(* then the method m of the wrapped object, then post_hook with the name m *)
(* and the value that m returned (if there is a post_hook), and returns    *)
(* that value; no other method runs.                                       *)
(***************************************************************************)
(* what ran, without the call's arguments: the function, and for a hook
   the name and the return value it was given *)
NamesOf(runs) ==
    [i \in DOMAIN runs |->
        IF runs[i].fn = "pre_hook" THEN <<"pre_hook", runs[i].args.args[2]>>
        ELSE IF runs[i].fn = "post_hook"
        THEN <<"post_hook", runs[i].args.args[2], runs[i].args.args[3]>>
        ELSE <<runs[i].fn>>]

MemberRun(c) ==
    (IF pre_hook = NoneV THEN <<>> ELSE << <<"pre_hook", StrV(<<c.member>>)>> >>)
    \o << <<c.member>> >>
    \o (IF post_hook = NoneV THEN <<>>
        ELSE << <<"post_hook", StrV(<<c.member>>), c.body.val>> >>)

C37_Member ==
    (Len(outs') = Len(outs) + 1 /\ outs'[Len(outs')].op = "Middleman_cl") =>
        LET c == outs'[Len(outs')]
        IN /\ NamesOf(SubSeq(ran', Len(ran) + 1, Len(ran'))) = MemberRun(c)
           /\ c.out = c.body

C37_MemberDispatch == [][C37_Member]_vars

(***************************************************************************)
(* C38: the Once guard is one flag per decorated function.  The flag is    *)
(* set by the first call, also when that call raises, and stays set; the   *)
(* function runs in the first call only, and every later call raises       *)
(* RuntimeError, whatever instance it is made on: after one construction   *)
(* of a Cli object every construction of a Cli object raises RuntimeError  *)
(* and runs neither _fork nor _set_pollers.                                *)
(***************************************************************************)
C38_Flags ==
    /\ _called["fn"] <=> CallsOf("Once") # <<>>
    /\ _called["_fork"] <=> CallsOf("Cli") # <<>>
    /\ \A f \in OnceFunctions : Len(BodiesRan(f)) <= 1
    /\ \A f \in OnceFunctions : BodiesRan(f) # <<>> => _called[f]

C38_Later ==
    /\ \A i \in 2..Len(CallsOf("Once")) : CallsOf("Once")[i].out = Raise(RuntimeError)
    /\ \A i \in 2..Len(CallsOf("Cli")) : CallsOf("Cli")[i].out = Raise(RuntimeError)
    /\ CallsOf("Cli") # <<>> =>
          /\ CallsOf("Cli")[1].out = IF CallsOf("Cli")[1].body.kind = "raise"
                                     THEN CallsOf("Cli")[1].body
                                     ELSE Return(CallsOf("Cli")[1].self)
          /\ BodiesRan("_fork")
                = <<Ran("_fork", <<CallsOf("Cli")[1].self>> \o CallsOf("Cli")[1].args)>>

C38_StaysSet == \A f \in OnceFunctions : _called[f] => _called'[f]

====
